---------------------------- MODULE Spec2Model ----------------------------
(***************************************************************************)
(* wakedev: delivery relay and click-wait subsystem.                       *)
(*                                                                         *)
(* The model follows src/src/main.rs.  Three kinds of process appear:      *)
(*   - the short-lived `send` invocation (handle_send, deliver_macos,      *)
(*     handle_remote_send, send_remote_request, spawn_background_wait);    *)
(*   - the detached waiter (handle_wait_macos, handle_click);              *)
(*   - the listener (handle_listen), one accept loop.                      *)
(* They share the scratch directory (files) and the wall clock (now).      *)
(*                                                                         *)
(* Encoding.  Option<T> is a set: {} is None, {x} is Some(x).  Strings     *)
(* that the code inspects character by character (title, source) are       *)
(* sequences of one-character strings.                                     *)
(***************************************************************************)
EXTENDS Integers, Sequences, FiniteSets, TLC

VARIABLES
    platform,   \* cfg!(target_os): "macos" or "other"
    now,        \* SystemTime::now() in milliseconds
    config,     \* load_config(): Option<Config>
    files,      \* scratch directory: payload path -> file content
    waiters,    \* detached wait-macos processes, in spawn order
    fg,         \* the foreground call stack (send invocation or listener dispatch)
    rs,         \* locals of handle_remote_send / send_remote_request
    posts,      \* the POST requests issued by the send invocation, each with
                \* the response it got
    stdout,     \* report lines printed by print_send_output
    lsn,        \* the listener: derived settings of handle_listen
    req,        \* the request the listener took last from incoming_requests()
    resp,       \* the responses the listener sent to that request
    cfgfile,    \* the config file on disk: its TOML document, and how often
                \* it has been written
    cmds        \* `config set` and `remote forward` invocations

vars == <<platform, now, config, files, waiters, fg, rs, posts, stdout, lsn, req, resp, cfgfile, cmds>>

----------------------------------------------------------------------------
(* Bounds *)

MaxRetries == 1
MaxTime == 1
MaxRequests == 1
MaxHandoffs == 2
MaxSets == 2
MaxForwards == 3

----------------------------------------------------------------------------
(* Option<T> *)

None == {}

Some(x) == {x}

IsSome(o) == o # {}

Unwrap(o) == CHOOSE x \in o : TRUE

OrOpt(a, b) == IF a # {} THEN a ELSE b

UnwrapOr(o, d) == IF o # {} THEN CHOOSE x \in o : TRUE ELSE d

Opt(S) == {None} \cup {{x} : x \in S}

----------------------------------------------------------------------------
(* Strings as character sequences *)

Str_Wakedev == <<"W", "a", "k", "e", "d", "e", "v">>

Str_Notification == <<"N", "o", "t", "i", "f", "i", "c", "a", "t", "i", "o", "n">>

Str_claude == <<"c", "l", "a", "u", "d", "e">>

\* host names and URLs of the remote relay
Str_mba == <<"m", "b", "a">>

Str_dev == <<"d", "e", "v">>

Str_http == <<"h", "t", "t", "p", ":", "/", "/">>

Str_https == <<"h", "t", "t", "p", "s", ":", "/", "/">>

Url_mba == Str_http \o Str_mba \o <<":", "9", "/", "n", "o", "t", "i", "f", "y">>

Url_alt == <<"a", "l", "t", ":", "1", "7">>

Url_noport == Str_https \o Str_mba

LowerChar(c) ==
    CASE c = "C" -> "c"
      [] c = "N" -> "n"
      [] c = "W" -> "w"
      [] c = "B" -> "b"
      [] OTHER -> c

UpperChar(c) ==
    CASE c = "c" -> "C"
      [] c = "n" -> "N"
      [] c = "w" -> "W"
      [] c = "b" -> "B"
      [] OTHER -> c

to_lowercase(s) == [i \in 1..Len(s) |-> LowerChar(s[i])]

IsWhitespace(c) == c \in {" ", "\t"}

RECURSIVE trim_start(_)
trim_start(s) ==
    IF s # <<>> /\ IsWhitespace(Head(s)) THEN trim_start(Tail(s)) ELSE s

RECURSIVE trim_end(_)
trim_end(s) ==
    IF s # <<>> /\ IsWhitespace(s[Len(s)])
    THEN trim_end(SubSeq(s, 1, Len(s) - 1))
    ELSE s

trim(s) == trim_end(trim_start(s))

ends_with(s, suffix) ==
    /\ Len(suffix) <= Len(s)
    /\ SubSeq(s, Len(s) - Len(suffix) + 1, Len(s)) = suffix

----------------------------------------------------------------------------
(* Values the program handles *)

\* Notification (handle_send builds it with sender, dedupe_key, metadata
\* absent and no actions)
MkNotification(title, message, source, icon, link, sound, urgency, tag) ==
    [title |-> title, message |-> message, source |-> source, icon |-> icon,
     link |-> link, sound |-> sound, urgency |-> urgency, tag |-> tag,
     sender |-> None, dedupe_key |-> None, metadata |-> None,
     actions |-> <<>>]

\* provider names: String::to_lowercase on the names the inputs use
LowerName(s) ==
    CASE s = "MacOS" -> "macos"
      [] s = "Remote" -> "remote"
      [] OTHER -> s

\* DeliveryOutcome
Outcomes == {"Delivered", "Clicked", "ActionButton", "Closed", "Replied"}

\* NotifallError values; Ok(()) is the kind "Ok"
Ok == [kind |-> "Ok", msg |-> <<>>]

Err(kind, msg) == [kind |-> kind, msg |-> msg]

Running == [kind |-> "Running", msg |-> <<>>]

----------------------------------------------------------------------------
(* Inputs: configuration files, environments and command lines *)

RemoteTable(host, port, url, retries, fallback_to_local, forward_enabled) ==
    [host |-> host, port |-> port, url |-> url, token |-> None,
     timeout_ms |-> None, retries |-> retries,
     fallback_to_local |-> fallback_to_local,
     forward_enabled |-> forward_enabled, previous_provider |-> None]

ConfigFile(default_provider, remote, sources) ==
    Some([default_provider |-> default_provider, macos |-> None,
          remote |-> remote, listener |-> None, sources |-> sources])

\* Config: the absent file; default_provider = "Remote" with a host, a port and a url; remote
\* forwarding enabled with a host, and enabled without a host next to
\* default_provider = "macos" and a url without port; fallback_to_local =
\* false with forwarding off; a url with host and port next to a port;
\* a [sources.claude] table with an icon
Configs ==
    {None,
     ConfigFile(Some("Remote"),
                Some(RemoteTable(Some(Str_mba), Some(9), Some(Url_alt), None, None,
                                 None)),
                None),
     ConfigFile(None,
                Some(RemoteTable(Some(Str_mba), None, None, Some(1), None,
                                 Some(TRUE))),
                None),
     ConfigFile(Some("macos"),
                Some(RemoteTable(None, None, Some(Url_noport), None, None,
                                 Some(TRUE))),
                None),
     ConfigFile(Some("macos"),
                Some(RemoteTable(Some(Str_mba), None, None, None, Some(FALSE),
                                 Some(FALSE))),
                None),
     ConfigFile(Some("remote"),
                Some(RemoteTable(None, Some(5), Some(Url_mba), None, None,
                                 None)),
                None),
     ConfigFile(None, None,
                Some([k \in {Str_claude} |->
                        [icon |-> Some("src.icns"), display_name |-> None,
                         app_bundle_id |-> None]]))}

Platforms == {"macos", "other"}

\* detect_context(): Option<Context>
Contexts ==
    Opt({[tmux |-> Some([session |-> "s", window |-> "w", pane |-> "p",
                         client |-> None]),
          terminal |-> Some([app |-> Some("ghostty")])]})

\* SendArgs (cli.rs); fields the delivery path never reads are left out
SendArgsOf(title, icon, no_icon, source, on_click, wait_for_click, background, json, provider, remote_host, remote_retries, no_fallback) ==
    [title |-> title, message |-> "m", icon |-> icon, no_icon |-> no_icon,
     link |-> None, sound |-> None, silent |-> FALSE, urgency |-> None,
     tag |-> None, source |-> source, on_click |-> on_click,
     wait_for_click |-> wait_for_click, background |-> background,
     json |-> json, provider |-> provider, remote_host |-> remote_host,
     remote_port |-> None, remote_token |-> None, remote_timeout_ms |-> None,
     remote_retries |-> remote_retries, no_fallback |-> no_fallback]

Str_Claude == <<"C", "l", "a", "u", "d", "e">>

MkInput(args, allow_image_icons, ctx, bundle, hostname) ==
    [args |-> args, allow_image_icons |-> allow_image_icons, ctx |-> ctx,
     bundle |-> bundle, hostname |-> hostname]

\* command lines that vary the options steering delivery, with one content
ControlInputs ==
    {MkInput(SendArgsOf(None, Some("cli.png"), FALSE, Some(Str_Claude),
                        oc, wfc, bg, js, pr, rh, rr, nf),
             TRUE, ctx, bundle, Some(<<"d">>)) :
        oc \in Opt({"focus"}), wfc \in BOOLEAN, bg \in BOOLEAN,
        js \in BOOLEAN, pr \in Opt({"macos", "Remote", "telegram"}),
        rh \in Opt({Str_dev}), rr \in Opt(0..MaxRetries), nf \in BOOLEAN,
        ctx \in {x \in Contexts : x # None},
        bundle \in Opt({"com.wakedev.claude"})}

\* command lines and environments that vary the content of the notification
ContentInputs ==
    {MkInput(SendArgsOf(ti, ic, ni, so, Some("focus"), FALSE, bg, FALSE,
                        Some(pr), Some(Str_dev), Some(0), FALSE),
             al, ctx, None, hn) :
        ti \in Opt({<<"b">>}), ic \in Opt({"cli.png"}), ni \in BOOLEAN,
        so \in Opt({Str_Claude}), bg \in BOOLEAN, pr \in {"macos", "Remote"},
        al \in BOOLEAN, ctx \in Contexts, hn \in Opt({<<"d">>})}

\* command lines that vary the endpoint of the relay
TargetInputs ==
    {MkInput([SendArgsOf(None, None, FALSE, None, None, FALSE, FALSE, js,
                         Some("remote"), rh, Some(0), nf)
                EXCEPT !.remote_port = rp],
             FALSE, None, None, None) :
        js \in BOOLEAN, rh \in Opt({Str_dev}), rp \in Opt({7}),
        nf \in BOOLEAN}

\* detect_context() with part of the facts: tmux without a terminal, a
\* terminal without an application name, a terminal alone
PartialContexts ==
    {Some([tmux |-> Some([session |-> "s", window |-> "w", pane |-> "p",
                          client |-> Some("c")]),
           terminal |-> None]),
     Some([tmux |-> None, terminal |-> Some([app |-> None])]),
     Some([tmux |-> None, terminal |-> Some([app |-> Some("ghostty")])])}

\* command lines with an on-click command in the environments above
ContextInputs ==
    {MkInput(SendArgsOf(None, None, FALSE, None, Some("focus"), FALSE, bg,
                        FALSE, Some("macos"), None, None, FALSE),
             FALSE, ctx, None, None) :
        bg \in BOOLEAN, ctx \in PartialContexts}

SendInputs ==
    ControlInputs \cup ContentInputs \cup TargetInputs \cup ContextInputs

----------------------------------------------------------------------------
(* handle_send: the pure part *)

\* the forwarding flag consulted before the explicit override
resolve_provider_ForwardFirst(cli_provider, cfg, plat) ==
    IF /\ IsSome(cfg)
       /\ IsSome(Unwrap(cfg).remote)
       /\ Unwrap(Unwrap(cfg).remote).forward_enabled = Some(TRUE)
    THEN Some("remote")
    ELSE IF IsSome(cli_provider) THEN Some(LowerName(Unwrap(cli_provider)))
    ELSE IF IsSome(cfg) /\ IsSome(Unwrap(cfg).default_provider)
         THEN Some(LowerName(Unwrap(Unwrap(cfg).default_provider)))
    ELSE IF plat = "macos" THEN Some("macos")
    ELSE None

resolve_provider(cli_provider, cfg, plat) ==
    IF IsSome(cli_provider) THEN Some(LowerName(Unwrap(cli_provider)))
    ELSE IF /\ IsSome(cfg)
            /\ IsSome(Unwrap(cfg).remote)
            /\ Unwrap(Unwrap(cfg).remote).forward_enabled = Some(TRUE)
         THEN Some("remote")
    ELSE IF IsSome(cfg) /\ IsSome(Unwrap(cfg).default_provider)
         THEN Some(LowerName(Unwrap(Unwrap(cfg).default_provider)))
    ELSE IF plat = "macos" THEN Some("macos")
    ELSE None

resolve_source_config(cfg, source) ==
    IF /\ IsSome(source)
       /\ IsSome(cfg)
       /\ IsSome(Unwrap(cfg).sources)
       /\ Unwrap(source) \in DOMAIN Unwrap(Unwrap(cfg).sources)
    THEN Some(Unwrap(Unwrap(cfg).sources)[Unwrap(source)])
    ELSE None

title_from_source(source) ==
    IF source # <<>>
    THEN <<UpperChar(Head(source))>> \o Tail(source)
    ELSE Str_Wakedev

resolve_title(cli_title, source_config, source) ==
    IF IsSome(cli_title) THEN Unwrap(cli_title)
    ELSE IF IsSome(source_config) /\ IsSome(Unwrap(source_config).display_name)
         THEN Unwrap(Unwrap(source_config).display_name)
    ELSE IF IsSome(source) THEN title_from_source(Unwrap(source))
    ELSE Str_Wakedev

default_source_icon(source) == None

resolve_icon(cli_icon, source_config, source) ==
    IF IsSome(cli_icon) THEN cli_icon
    ELSE OrOpt(IF IsSome(source_config) THEN Unwrap(source_config).icon ELSE None,
               default_source_icon(source))

\* resolve_macos_config; bundle is what default_source_bundle_id returns
\* (ensure_source_bundle depends on the cache directory)
resolve_macos_config(cfg, source_config, source, bundle) ==
    LET m0 == IF IsSome(cfg) THEN Unwrap(cfg).macos ELSE None
        dflt == [sound |-> None, app_bundle_id |-> None, icon |-> None]
        m1 == IF IsSome(source_config)
                 /\ IsSome(Unwrap(source_config).app_bundle_id)
              THEN Some([UnwrapOr(m0, dflt) EXCEPT
                         !.app_bundle_id = Unwrap(source_config).app_bundle_id])
              ELSE m0
        has == IsSome(m1) /\ IsSome(Unwrap(m1).app_bundle_id)
        b == IF IsSome(source) /\ Unwrap(source) = Str_claude THEN bundle
             ELSE None
    IN  IF ~has /\ IsSome(b)
        THEN Some([UnwrapOr(m1, dflt) EXCEPT !.app_bundle_id = b])
        ELSE m1

\* the icon handle_send resolves: --no-icon, then resolve_icon, then dropped
\* unless WAKEDEV_ALLOW_IMAGE_ICONS=1
SendIcon(args, source_config, source, allow_image_icons) ==
    LET icon == IF args.no_icon THEN None
                ELSE resolve_icon(args.icon, source_config, source)
    IN  IF IsSome(icon) /\ ~allow_image_icons THEN None ELSE icon

SendNotification(args, cfg, allow_image_icons) ==
    LET source == IF IsSome(args.source)
                  THEN Some(to_lowercase(Unwrap(args.source))) ELSE None
        source_config == resolve_source_config(cfg, source)
    IN  MkNotification(
            resolve_title(args.title, source_config, source),
            args.message,
            source,
            SendIcon(args, source_config, source, allow_image_icons),
            args.link,
            IF args.silent THEN Some("none") ELSE args.sound,
            args.urgency,
            args.tag)

\* the clone sent as it is
StripIcon_Kept(n) == n

\* remote_notification: the clone with the icon cleared
StripIcon(n) == [n EXCEPT !.icon = None]

\* the check at the top of handle_send
BackgroundCheckFails(args, provider_name) ==
    args.background /\ args.on_click = None /\ provider_name = "macos"

----------------------------------------------------------------------------
(* Remote relay client: the pure part *)

DefaultRemoteConfig ==
    [host |-> None, port |-> None, url |-> None, token |-> None,
     timeout_ms |-> None, retries |-> None, fallback_to_local |-> None,
     forward_enabled |-> None, previous_provider |-> None]

DefaultPort == 4280

DefaultTimeoutMs == 2000

DefaultRetries == 2

starts_with(s, prefix) ==
    /\ Len(prefix) <= Len(s)
    /\ SubSeq(s, 1, Len(prefix)) = prefix

strip_prefix(s, prefix) ==
    IF starts_with(s, prefix)
    THEN Some(SubSeq(s, Len(prefix) + 1, Len(s)))
    ELSE None

Positions(s, c) == {i \in 1..Len(s) : s[i] = c}

Least(S) == CHOOSE i \in S : \A j \in S : i <= j

Greatest(S) == CHOOSE i \in S : \A j \in S : j <= i

\* s.split('/').next()
FirstSegment(s) ==
    IF Positions(s, "/") = {} THEN s
    ELSE SubSeq(s, 1, Least(Positions(s, "/")) - 1)

\* s.rsplit_once(':')
rsplit_once(s) ==
    IF Positions(s, ":") = {} THEN None
    ELSE LET i == Greatest(Positions(s, ":"))
         IN  Some(<<SubSeq(s, 1, i - 1), SubSeq(s, i + 1, Len(s))>>)

Digits == {"0", "1", "2", "3", "4", "5", "6", "7", "8", "9"}

DigitValue(c) ==
    CASE c = "0" -> 0 [] c = "1" -> 1 [] c = "2" -> 2 [] c = "3" -> 3
      [] c = "4" -> 4 [] c = "5" -> 5 [] c = "6" -> 6 [] c = "7" -> 7
      [] c = "8" -> 8 [] c = "9" -> 9

RECURSIVE DecimalValue(_)
DecimalValue(s) ==
    IF s = <<>> THEN 0
    ELSE 10 * DecimalValue(SubSeq(s, 1, Len(s) - 1)) + DigitValue(s[Len(s)])

\* str::parse::<u16>(): an optional plus sign, then one digit or more, the
\* value at most 65535
parse_u16(s) ==
    LET d == IF s # <<>> /\ Head(s) = "+" THEN Tail(s) ELSE s
    IN  IF /\ d # <<>>
           /\ Len(d) <= 6
           /\ \A i \in 1..Len(d) : d[i] \in Digits
           /\ DecimalValue(d) <= 65535
        THEN Some(DecimalValue(d))
        ELSE None

\* parse_remote_url: the scheme is stripped, the part before the first
\* slash is split at its last colon, and what follows the colon must be a
\* port number
parse_remote_url(url) ==
    LET trimmed == UnwrapOr(OrOpt(strip_prefix(url, Str_http),
                                  strip_prefix(url, Str_https)), url)
        host_port == rsplit_once(FirstSegment(trimmed))
    IN  IF IsSome(host_port) /\ IsSome(parse_u16(Unwrap(host_port)[2]))
        THEN Some(<<Unwrap(host_port)[1], Unwrap(parse_u16(Unwrap(host_port)[2]))>>)
        ELSE None

MkTarget(host, port) ==
    [url |-> <<"http://", host, ":", port, "/notify">>, host |-> host,
     port |-> port]

resolve_remote_target(cli_host, cli_port, cfg_host, cfg_port, cfg_url) ==
    IF IsSome(cli_host)
    THEN Some(MkTarget(Unwrap(cli_host),
                       UnwrapOr(OrOpt(cli_port, cfg_port), DefaultPort)))
    ELSE IF IsSome(cfg_host)
    THEN Some(MkTarget(Unwrap(cfg_host),
                       UnwrapOr(OrOpt(cli_port, cfg_port), DefaultPort)))
    ELSE IF IsSome(cfg_url) /\ IsSome(parse_remote_url(Unwrap(cfg_url)))
    THEN LET hp == Unwrap(parse_remote_url(Unwrap(cfg_url)))
         IN  Some(MkTarget(hp[1], UnwrapOr(cli_port, hp[2])))
    ELSE None

DigitChar(d) == CHOOSE c \in Digits : DigitValue(c) = d

\* a port number as format! prints it
RECURSIVE DecimalString(_)
DecimalString(n) ==
    IF n < 10 THEN <<DigitChar(n)>>
    ELSE DecimalString(n \div 10) \o <<DigitChar(n % 10)>>

Str_notify_path == <<"/", "n", "o", "t", "i", "f", "y">>

Str_ping_path == <<"/", "p", "i", "n", "g">>

\* the characters of format!("http://{host}:{port}/notify")
UrlChars(t) ==
    Str_http \o t.host \o <<":">> \o DecimalString(t.port) \o Str_notify_path

\* str::trim_end_matches: the suffix is removed as often as it occurs
RECURSIVE trim_end_matches(_, _)
trim_end_matches(s, pat) ==
    IF pat # <<>> /\ ends_with(s, pat)
    THEN trim_end_matches(SubSeq(s, 1, Len(s) - Len(pat)), pat)
    ELSE s

\* the ping path appended to the whole URL
to_ping_url_Appended(url) == url \o Str_ping_path

\* to_ping_url: /notify at the end is replaced by /ping; otherwise ping is
\* appended, with a slash unless the URL ends in one
to_ping_url(url) ==
    IF ends_with(url, Str_notify_path)
    THEN trim_end_matches(url, Str_notify_path) \o Str_ping_path
    ELSE IF ends_with(url, <<"/">>)
    THEN url \o Tail(Str_ping_path)
    ELSE url \o Str_ping_path

\* fallback = !args.no_fallback && remote_cfg.fallback_to_local.unwrap_or(true)
FallbackEnabled(no_fallback, fallback_to_local) ==
    ~no_fallback /\ UnwrapOr(fallback_to_local, TRUE)

\* RemoteContext::from_local: the origin-host label of this machine
RemoteContextFromLocal(context, hostname) == [origin_host |-> hostname]

MkEnvelope(remote_notification, context, hostname) ==
    [notification |-> remote_notification,
     context |-> Some(RemoteContextFromLocal(context, hostname))]

\* what one POST can come back with: a status line or a transport error
Responses ==
    {[kind |-> "status", code |-> c] : c \in {200, 302, 500}}
      \cup {[kind |-> "transport", code |-> 0]}

\* the 2xx test of send_remote_request
IsSuccess(r) == r.kind = "status" /\ r.code >= 200 /\ r.code < 300

\* the message recorded for a failed attempt
AttemptError(r) ==
    IF r.kind = "status"
    THEN <<"remote error", "status", r.code>>
    ELSE <<"remote error", "transport", 0>>

\* the loop written with an exclusive range
LoopContinues_Exclusive(i, retries) == i < retries

\* the loop with one pass more than the range has
LoopContinues_OneMore(i, retries) == i <= retries + 1

\* `for _ in 0..=retries`: the loop body runs for i = 0, ..., retries
LoopContinues(i, retries) == i <= retries

----------------------------------------------------------------------------
(* Process state *)

SendPid == 1

ListenPid == 2

FgIdle ==
    [kind |-> "none", pid |-> 0, pc |-> "idle", provider |-> None,
     args |-> None, d |-> None, via |-> "none", path |-> None,
     spawned |-> None, sent |-> <<>>, outcome |-> None, clicked |-> <<>>,
     child |-> "none", result |-> Running]

RsIdle ==
    [cli_host |-> None, cli_port |-> None, target |-> None, token |-> None, retries |-> 0, fallback |-> FALSE,
     envelope |-> None, notification |-> None, context |-> None,
     i |-> 0, last_err |-> None, send_result |-> Running]

LsnOff ==
    [state |-> "off", token |-> None, require_token |-> FALSE,
     prefix_hostname |-> FALSE, allow_hosts |-> {}, on_click |-> None,
     no_click |-> FALSE, cli_on_click |-> None,
     served |-> 0]

NoReq == None

\* the return with the error dropped
Return_Swallowed(f, result) ==
    [f EXCEPT !.pc = IF f.kind = "listen" THEN "respond" ELSE "done",
              !.result = Ok]

\* the caller deliver_macos returns to: handle_send exits the process, the
\* listener goes on to respond
Return(f, result) ==
    [f EXCEPT !.pc = IF f.kind = "listen" THEN "respond" ELSE "done",
              !.result = result]

\* scratch directory
FileWrite(fs, path, content) ==
    [p \in DOMAIN fs \cup {path} |-> IF p = path THEN content ELSE fs[p]]

FileRemove(fs, path) == [p \in DOMAIN fs \ {path} |-> fs[p]]

Partial(payload) == [state |-> "partial", payload |-> payload]

Complete(payload) == [state |-> "complete", payload |-> payload]

\* the payload built without the context
MkPayload_NoContext(d) ==
    [notification |-> d.notification, macos |-> d.macos_config,
     on_click |-> d.on_click, context |-> None]

\* WaitPayload built by deliver_macos
MkPayload(d) ==
    [notification |-> d.notification, macos |-> d.macos_config,
     on_click |-> d.on_click, context |-> d.context]

\* serde_json: the JSON text of the payload, as a tree of JSON values.  An
\* Option is written as null or as the value inside it, and read back as
\* None from null and as Some from anything else.
JsonNull == [t |-> "null"]

JsonOf(v) == [t |-> "value", v |-> v]

EncodeOption(o) == IF o = None THEN JsonNull ELSE JsonOf(Unwrap(o))

\* an Option field that is not read back
DecodeOption_Skipped(j) == None

DecodeOption(j) == IF j.t = "null" THEN None ELSE Some(j.v)

EncodeNotification(n) ==
    [title |-> JsonOf(n.title), message |-> JsonOf(n.message),
     source |-> EncodeOption(n.source), icon |-> EncodeOption(n.icon),
     link |-> EncodeOption(n.link), sound |-> EncodeOption(n.sound),
     urgency |-> EncodeOption(n.urgency), tag |-> EncodeOption(n.tag),
     sender |-> EncodeOption(n.sender),
     dedupe_key |-> EncodeOption(n.dedupe_key),
     metadata |-> EncodeOption(n.metadata), actions |-> JsonOf(n.actions)]

DecodeNotification(j) ==
    [title |-> j.title.v, message |-> j.message.v,
     source |-> DecodeOption(j.source), icon |-> DecodeOption(j.icon),
     link |-> DecodeOption(j.link), sound |-> DecodeOption(j.sound),
     urgency |-> DecodeOption(j.urgency), tag |-> DecodeOption(j.tag),
     sender |-> DecodeOption(j.sender),
     dedupe_key |-> DecodeOption(j.dedupe_key),
     metadata |-> DecodeOption(j.metadata), actions |-> j.actions.v]

EncodeMacosConfig(m) ==
    IF m = None THEN JsonNull
    ELSE JsonOf([sound |-> EncodeOption(Unwrap(m).sound),
                 app_bundle_id |-> EncodeOption(Unwrap(m).app_bundle_id),
                 icon |-> EncodeOption(Unwrap(m).icon)])

DecodeMacosConfig(j) ==
    IF j.t = "null" THEN None
    ELSE Some([sound |-> DecodeOption(j.v.sound),
               app_bundle_id |-> DecodeOption(j.v.app_bundle_id),
               icon |-> DecodeOption(j.v.icon)])

EncodeTmux(t) ==
    IF t = None THEN JsonNull
    ELSE JsonOf([session |-> JsonOf(Unwrap(t).session),
                 window |-> JsonOf(Unwrap(t).window),
                 pane |-> JsonOf(Unwrap(t).pane),
                 client |-> EncodeOption(Unwrap(t).client)])

DecodeTmux(j) ==
    IF j.t = "null" THEN None
    ELSE Some([session |-> j.v.session.v, window |-> j.v.window.v,
               pane |-> j.v.pane.v, client |-> DecodeOption(j.v.client)])

EncodeTerminal(t) ==
    IF t = None THEN JsonNull
    ELSE JsonOf([app |-> EncodeOption(Unwrap(t).app)])

DecodeTerminal(j) ==
    IF j.t = "null" THEN None
    ELSE Some([app |-> DecodeOption(j.v.app)])

EncodeContext(c) ==
    IF c = None THEN JsonNull
    ELSE JsonOf([tmux |-> EncodeTmux(Unwrap(c).tmux),
                 terminal |-> EncodeTerminal(Unwrap(c).terminal)])

DecodeContext(j) ==
    IF j.t = "null" THEN None
    ELSE Some([tmux |-> DecodeTmux(j.v.tmux),
               terminal |-> DecodeTerminal(j.v.terminal)])

\* serde_json::to_vec(&payload)
EncodePayload(p) ==
    [notification |-> EncodeNotification(p.notification),
     macos |-> EncodeMacosConfig(p.macos),
     on_click |-> EncodeOption(p.on_click),
     context |-> EncodeContext(p.context)]

\* serde_json::from_str::<WaitPayload>(&contents)
DecodePayload(j) ==
    [notification |-> DecodeNotification(j.notification),
     macos |-> DecodeMacosConfig(j.macos),
     on_click |-> DecodeOption(j.on_click),
     context |-> DecodeContext(j.context)]

\* file name: wakedev-payload-{pid}-{ts}.json in the temp directory
PayloadPath(pid, ts) == <<"wakedev-payload", pid, ts>>

\* the report printed without the payload path
ReportLine_NoPayload(provider, outcome, background, payload) ==
    [provider |-> provider, background |-> background, outcome |-> outcome,
     payload |-> None]

\* print_send_output
ReportLine(provider, outcome, background, payload) ==
    [provider |-> provider, background |-> background, outcome |-> outcome,
     payload |-> payload]

\* the match with the ActionButton arm left out
ClickFires_ClickedOnly(outcome, on_click) ==
    IsSome(on_click) /\ outcome = Some("Clicked")

\* handle_click: the command fires for Clicked and ActionButton only
ClickFires(outcome, on_click) ==
    /\ IsSome(on_click)
    /\ outcome \in {Some("Clicked"), Some("ActionButton")}

\* environment handle_click gives the command
ClickEnv(n, context) ==
    [WAKEDEV_SOURCE |-> n.source,
     WAKEDEV_TITLE |-> Some(n.title),
     WAKEDEV_MESSAGE |-> Some(n.message),
     WAKEDEV_TAG |-> n.tag,
     WAKEDEV_TMUX_SESSION |->
         IF IsSome(context) /\ IsSome(Unwrap(context).tmux)
         THEN Some(Unwrap(Unwrap(context).tmux).session) ELSE None,
     WAKEDEV_TMUX_WINDOW |->
         IF IsSome(context) /\ IsSome(Unwrap(context).tmux)
         THEN Some(Unwrap(Unwrap(context).tmux).window) ELSE None,
     WAKEDEV_TMUX_PANE |->
         IF IsSome(context) /\ IsSome(Unwrap(context).tmux)
         THEN Some(Unwrap(Unwrap(context).tmux).pane) ELSE None,
     WAKEDEV_TMUX_CLIENT |->
         IF IsSome(context) /\ IsSome(Unwrap(context).tmux)
         THEN Unwrap(Unwrap(context).tmux).client ELSE None,
     WAKEDEV_TERMINAL_APP |->
         IF IsSome(context) /\ IsSome(Unwrap(context).terminal)
         THEN Unwrap(Unwrap(context).terminal).app ELSE None,
     WAKEDEV_CONTEXT_JSON |-> context]

Click(cmd, n, context) == [cmd |-> cmd, env |-> ClickEnv(n, context)]

\* MacosProvider::new: unsupported off macOS; on macOS it can fail only in
\* set_application, which runs when a bundle id is configured
ProviderNewResults(plat, macos_config) ==
    IF plat # "macos" THEN {Err("Provider", <<"Unsupported">>)}
    ELSE IF IsSome(macos_config) /\ IsSome(Unwrap(macos_config).app_bundle_id)
    THEN {Ok, Err("Provider", <<"set_application">>)}
    ELSE {Ok}

\* Provider::send: an error, or a report whose outcome is present exactly
\* when the call waited
ProviderSendResults(wait) ==
    {[ok |-> FALSE, outcome |-> None]}
      \cup IF wait
           THEN {[ok |-> TRUE, outcome |-> Some(o)] : o \in Outcomes}
           ELSE {[ok |-> TRUE, outcome |-> None]}

----------------------------------------------------------------------------
(* The send invocation: handle_send, handle_remote_send, send_remote_request *)

DeliverArgs(n, macos_config, on_click, background, wait_for_click, json, ctx) ==
    [notification |-> n, macos_config |-> macos_config, on_click |-> on_click,
     background |-> background, wait_for_click |-> wait_for_click,
     json |-> json, context |-> ctx]

SourceConfigOf(cfg, n) == resolve_source_config(cfg, n.source)

\* locals of handle_remote_send before the request loop
RemoteLocals(cfg, args, n, ctx, hostname) ==
    LET remote_cfg == IF IsSome(cfg) THEN UnwrapOr(Unwrap(cfg).remote,
                                                    DefaultRemoteConfig)
                      ELSE DefaultRemoteConfig
    IN  [cli_host |-> args.remote_host,
         cli_port |-> args.remote_port,
         target |-> resolve_remote_target(args.remote_host, args.remote_port,
                                          remote_cfg.host, remote_cfg.port,
                                          remote_cfg.url),
         token |-> OrOpt(args.remote_token, remote_cfg.token),
         retries |-> UnwrapOr(OrOpt(args.remote_retries, remote_cfg.retries),
                              DefaultRetries),
         fallback |-> FallbackEnabled(args.no_fallback,
                                      remote_cfg.fallback_to_local),
         envelope |-> Some(MkEnvelope(StripIcon(n), ctx, hostname)),
         notification |-> Some(n),
         context |-> ctx,
         i |-> 0,
         last_err |-> None,
         send_result |-> Running]

\* the result with the recorded message left out
ExhaustedResult_Generic(last_err) == Err("Provider", <<"remote error">>)

\* the result send_remote_request returns when the loop runs out
ExhaustedResult(last_err) ==
    Err("Provider", UnwrapOr(last_err, <<"remote error">>))

\* RemotePingArgs (cli.rs)
PingInputs ==
    [remote_host : Opt({Str_dev}), remote_port : Opt({7}),
     remote_token : Opt({"cli-token"})]

\* handle_remote_ping: the target is resolved, one GET is sent to its ping
\* URL, and its result is the result of the command
RemotePing ==
    /\ fg.kind = "none"
    /\ lsn.state = "off"
    /\ \E args \in PingInputs, ok \in BOOLEAN :
         LET remote_cfg == IF IsSome(config)
                           THEN UnwrapOr(Unwrap(config).remote,
                                         DefaultRemoteConfig)
                           ELSE DefaultRemoteConfig
             target == resolve_remote_target(args.remote_host,
                           args.remote_port, remote_cfg.host, remote_cfg.port,
                           remote_cfg.url)
             token == OrOpt(args.remote_token, remote_cfg.token)
             f0 == [FgIdle EXCEPT !.kind = "ping", !.pid = SendPid]
         IN  /\ rs' = [RsIdle EXCEPT !.cli_host = args.remote_host,
                                     !.cli_port = args.remote_port,
                                     !.target = target,
                                     !.token = token]
             /\ IF target = None
                THEN /\ fg' = Return(f0, Err("Provider",
                                  <<"remote host is not configured">>))
                     /\ posts' = posts
                     /\ stdout' = stdout
                ELSE /\ posts' = Append(posts,
                            [method |-> "GET",
                             url |-> to_ping_url(UrlChars(Unwrap(target))),
                             token |-> token,
                             response |-> IF ok THEN "ok" ELSE "error"])
                     /\ fg' = Return(f0, IF ok THEN Ok
                                         ELSE Err("Provider",
                                                  <<"remote ping failed">>))
                     /\ stdout' = IF ok THEN Append(stdout, [text |-> "ok"])
                                  ELSE stdout
    /\ UNCHANGED <<cfgfile, cmds, platform, now, config, files, waiters, lsn, req, resp>>

\* handle_send up to the provider match
SendStart ==
    /\ fg.kind = "none"
    /\ lsn.state = "off"
    /\ \E inp \in SendInputs :
         LET args == inp.args
             ctx == inp.ctx
             bundle == inp.bundle
             hostname == inp.hostname
             pn == resolve_provider(args.provider, config, platform)
             n == SendNotification(args, config, inp.allow_image_icons)
             f0 == [FgIdle EXCEPT
                      !.kind = "send", !.pid = SendPid, !.provider = pn,
                      !.args = Some([provider |-> args.provider,
                                     background |-> args.background,
                                     on_click |-> args.on_click,
                                     wait_for_click |-> args.wait_for_click,
                                     json |-> args.json])]
             loc == RemoteLocals(config, args, n, ctx, hostname)
         IN  IF pn = None
             THEN /\ fg' = Return(f0, Err("NoProviderAvailable", <<>>))
                  /\ rs' = rs
             ELSE IF BackgroundCheckFails(args, Unwrap(pn))
             THEN /\ fg' = Return(f0, Err("BackgroundRequiresOnClick", <<>>))
                  /\ rs' = rs
             ELSE IF Unwrap(pn) = "macos"
             THEN /\ fg' = [f0 EXCEPT
                              !.pc = "deliver", !.via = "direct",
                              !.d = Some(DeliverArgs(n,
                                    resolve_macos_config(config,
                                        SourceConfigOf(config, n), n.source,
                                        bundle),
                                    args.on_click, args.background,
                                    args.wait_for_click, args.json, ctx))]
                  /\ rs' = rs
             ELSE IF Unwrap(pn) = "remote"
             THEN IF loc.target = None
                  THEN /\ fg' = [f0 EXCEPT !.pc = "remote_done"]
                       /\ rs' = [loc EXCEPT !.send_result =
                                   Err("Provider",
                                       <<"remote host is not configured">>)]
                  ELSE IF LoopContinues(0, loc.retries)
                  THEN /\ fg' = [f0 EXCEPT !.pc = "remote_loop"]
                       /\ rs' = loc
                  ELSE /\ fg' = [f0 EXCEPT !.pc = "remote_done"]
                       /\ rs' = [loc EXCEPT !.send_result =
                                   ExhaustedResult(None)]
             ELSE /\ fg' = Return(f0, Err("ProviderUnsupported",
                                          <<Unwrap(pn)>>))
                  /\ rs' = rs
    /\ UNCHANGED <<cfgfile, cmds, platform, now, config, files, waiters, posts, stdout, lsn,
                   req, resp>>

\* one iteration of the loop in send_remote_request
RemoteAttempt ==
    /\ fg.pc = "remote_loop"
    /\ \E r \in Responses :
         /\ posts' = Append(posts, [method |-> "POST",
                                    url |-> Unwrap(rs.target).url,
                                    token |-> rs.token,
                                    body |-> Unwrap(rs.envelope),
                                    response |-> r])
         /\ IF IsSuccess(r)
            THEN /\ rs' = [rs EXCEPT !.send_result = Ok]
                 /\ fg' = [fg EXCEPT !.pc = "remote_done"]
            ELSE IF LoopContinues(rs.i + 1, rs.retries)
            THEN /\ rs' = [rs EXCEPT !.last_err = Some(AttemptError(r)),
                                     !.i = rs.i + 1]
                 /\ fg' = fg
            ELSE /\ rs' = [rs EXCEPT !.last_err = Some(AttemptError(r)),
                                     !.i = rs.i + 1,
                                     !.send_result =
                                         ExhaustedResult(Some(AttemptError(r)))]
                 /\ fg' = [fg EXCEPT !.pc = "remote_done"]
    /\ UNCHANGED <<cfgfile, cmds, platform, now, config, files, waiters, stdout, lsn, req,
                   resp>>

\* the fallback call made with the copy built for the envelope
FallbackArgs_Envelope(a, n, macos_config, ctx) ==
    DeliverArgs(StripIcon(n), macos_config, a.on_click, a.background,
                a.wait_for_click, a.json, ctx)

\* the arguments of the fallback call of deliver_macos: the original
\* notification and the options of the invocation
FallbackArgs(a, n, macos_config, ctx) ==
    DeliverArgs(n, macos_config, a.on_click, a.background, a.wait_for_click,
                a.json, ctx)

\* `if fallback && cfg!(target_os = "macos")`
ShouldFallback(fallback, plat) == fallback /\ plat = "macos"

\* handle_remote_send after send_remote_request has returned
RemoteFinish ==
    /\ fg.pc = "remote_done"
    /\ \E bundle \in Opt({"com.wakedev.claude"}) :
         LET a == Unwrap(fg.args)
             n == Unwrap(rs.notification)
         IN  IF rs.send_result = Ok
             THEN /\ stdout' = IF a.json
                               THEN Append(stdout,
                                      ReportLine("remote", None, FALSE, None))
                               ELSE stdout
                  /\ fg' = Return(fg, Ok)
             ELSE IF ShouldFallback(rs.fallback, platform)
             THEN /\ stdout' = stdout
                  /\ fg' = [fg EXCEPT
                              !.pc = "deliver", !.via = "fallback",
                              !.d = Some(FallbackArgs(a, n,
                                    resolve_macos_config(config,
                                        SourceConfigOf(config, n), n.source,
                                        bundle),
                                    rs.context))]
             ELSE /\ stdout' = stdout
                  /\ fg' = Return(fg, rs.send_result)
    /\ UNCHANGED <<cfgfile, cmds, platform, now, config, files, waiters, rs, posts, lsn,
                   req, resp>>

----------------------------------------------------------------------------
(* deliver_macos, spawn_background_wait, write_payload *)

NewWaiter(path, payload) ==
    [path |-> path, handoff |-> payload, stdin |-> "null", stdout |-> "null",
     stderr |-> "null", session |-> "new", pc |-> "start", observed |-> "none",
     payload |-> None, sent |-> <<>>, outcome |-> None, clicked |-> <<>>,
     child |-> "none", result |-> Running]

\* write_payload, first half: the name is fixed from the process id and the
\* clock, and fs::write creates (or truncates) the file
DeliverBackgroundOpen ==
    /\ fg.pc = "deliver"
    /\ Unwrap(fg.d).background
    /\ LET path == PayloadPath(fg.pid, now)
       IN  \E ok \in BOOLEAN :
             IF ok
             THEN /\ files' = FileWrite(files, path,
                                        Partial(EncodePayload(
                                            MkPayload(Unwrap(fg.d)))))
                  /\ fg' = [fg EXCEPT !.pc = "write", !.path = Some(path)]
             ELSE /\ files' = files
                  /\ fg' = Return(fg, Err("Io", <<"write_payload">>))
    /\ UNCHANGED <<cfgfile, cmds, platform, now, config, waiters, rs, posts, stdout, lsn, req,
                   resp>>

\* write_payload, second half: the bytes are written, or the write fails and
\* the error is returned with the file left as it is
DeliverBackgroundWrite ==
    /\ fg.pc = "write"
    /\ \E ok \in BOOLEAN :
         IF ok
         THEN /\ files' = FileWrite(files, Unwrap(fg.path),
                                    Complete(EncodePayload(
                                        MkPayload(Unwrap(fg.d)))))
              /\ fg' = [fg EXCEPT !.pc = "spawn"]
         ELSE /\ files' = files
              /\ fg' = Return(fg, Err("Io", <<"write_payload">>))
    /\ UNCHANGED <<cfgfile, cmds, platform, now, config, waiters, rs, posts, stdout, lsn, req,
                   resp>>

\* the spawn followed by a provider call in the foreground process
DeliverBackgroundSpawn_Blocking ==
    /\ fg.pc = "spawn"
    /\ waiters' = Append(waiters, NewWaiter(Unwrap(fg.path),
                                            MkPayload(Unwrap(fg.d))))
    /\ fg' = [fg EXCEPT
                !.spawned = Some(Len(waiters) + 1),
                !.pc = "provider",
                !.sent = Append(@, [notification |-> Unwrap(fg.d).notification,
                                    wait_for_click |-> TRUE])]
    /\ UNCHANGED <<cfgfile, cmds, platform, now, config, files, rs, posts, stdout, lsn, req,
                   resp>>

\* spawn_background_wait after write_payload, and the report of deliver_macos
DeliverBackgroundSpawn ==
    /\ fg.pc = "spawn"
    /\ \E ok \in BOOLEAN :
         IF ok
         THEN /\ waiters' = Append(waiters,
                                   NewWaiter(Unwrap(fg.path),
                                             MkPayload(Unwrap(fg.d))))
              /\ stdout' = IF Unwrap(fg.d).json
                           THEN Append(stdout,
                                  ReportLine("macos", None, TRUE, fg.path))
                           ELSE stdout
              /\ fg' = Return([fg EXCEPT !.spawned = Some(Len(waiters) + 1)],
                               Ok)
         ELSE /\ waiters' = waiters
              /\ stdout' = stdout
              /\ fg' = Return(fg, Err("Io", <<"spawn">>))
    /\ UNCHANGED <<cfgfile, cmds, platform, now, config, files, rs, posts, lsn, req, resp>>

\* the flag alone
WaitRequested_FlagOnly(d) == d.wait_for_click

\* wait_for_click || on_click.is_some()
WaitRequested(d) == d.wait_for_click \/ IsSome(d.on_click)

\* deliver_macos without background: the provider is built and its send
\* is entered
DeliverForegroundCall ==
    /\ fg.pc = "deliver"
    /\ ~Unwrap(fg.d).background
    /\ LET d == Unwrap(fg.d)
       IN  \E r \in ProviderNewResults(platform, d.macos_config) :
             IF r = Ok
             THEN fg' = [fg EXCEPT
                           !.pc = "provider",
                           !.sent = Append(@, [notification |-> d.notification,
                                               wait_for_click |->
                                                   WaitRequested(d)])]
             ELSE fg' = Return(fg, r)
    /\ UNCHANGED <<cfgfile, cmds, platform, now, config, files, waiters, rs, posts, stdout,
                   lsn, req, resp>>

\* the provider's send returns; click policy; report
DeliverForegroundReturn ==
    /\ fg.pc = "provider"
    /\ LET d == Unwrap(fg.d)
           wait == WaitRequested(d)
       IN  \E r \in ProviderSendResults(wait), spawned \in BOOLEAN :
             IF ~r.ok
             THEN /\ fg' = Return(fg, Err("Provider", <<"send">>))
                  /\ stdout' = stdout
             ELSE IF wait /\ ClickFires(r.outcome, d.on_click) /\ ~spawned
             THEN /\ fg' = Return([fg EXCEPT !.outcome = r.outcome],
                                  Err("Io", <<"click">>))
                  /\ stdout' = stdout
             ELSE /\ fg' = Return(
                      [fg EXCEPT
                         !.outcome = r.outcome,
                         !.clicked =
                             IF wait /\ ClickFires(r.outcome, d.on_click)
                             THEN Append(@, Click(Unwrap(d.on_click),
                                                  d.notification, d.context))
                             ELSE @,
                         !.child =
                             IF wait /\ ClickFires(r.outcome, d.on_click)
                             THEN "running" ELSE @],
                      Ok)
                  /\ stdout' = IF d.json
                               THEN Append(stdout,
                                      ReportLine("macos", r.outcome, FALSE,
                                                 None))
                               ELSE stdout
    /\ UNCHANGED <<cfgfile, cmds, platform, now, config, files, waiters, rs, posts, lsn, req,
                   resp>>

----------------------------------------------------------------------------
(* The detached waiter: handle_wait_macos *)

\* the return with a failed provider call made once more
Exit_Retry(w, result) ==
    IF result.kind = "Provider" /\ Len(w.sent) = 1
    THEN [w EXCEPT !.pc = "waiting", !.sent = Append(@, @[1])]
    ELSE [w EXCEPT !.pc = "exited", !.result = result]

Exit(w, result) == [w EXCEPT !.pc = "exited", !.result = result]

\* read and decode the payload, build the provider, enter its send
WaiterStart(k) ==
    /\ k \in 1..Len(waiters)
    /\ waiters[k].pc = "start"
    /\ LET w == waiters[k]
       IN  IF w.path \notin DOMAIN files
           THEN waiters' = [waiters EXCEPT ![k] =
                   Exit([w EXCEPT !.observed = "missing"],
                        Err("Io", <<"read">>))]
           ELSE IF files[w.path].state # "complete"
           THEN waiters' = [waiters EXCEPT ![k] =
                   Exit([w EXCEPT !.observed = "partial"],
                        Err("Json", <<"decode">>))]
           ELSE LET pl == DecodePayload(files[w.path].payload)
                    w1 == [w EXCEPT !.observed = "complete",
                                    !.payload = Some(pl)]
                IN  \E r \in ProviderNewResults(platform, pl.macos) :
                      IF r = Ok
                      THEN waiters' = [waiters EXCEPT ![k] =
                              [w1 EXCEPT
                                 !.pc = "waiting",
                                 !.sent = Append(@,
                                     [notification |-> pl.notification,
                                      wait_for_click |-> TRUE])]]
                      ELSE waiters' = [waiters EXCEPT ![k] = Exit(w1, r)]
    /\ UNCHANGED <<cfgfile, cmds, platform, now, config, files, fg, rs, posts, stdout, lsn,
                   req, resp>>

\* the provider's send returns; click policy; the payload file is removed
WaiterFinish(k) ==
    /\ k \in 1..Len(waiters)
    /\ waiters[k].pc = "waiting"
    /\ LET w == waiters[k]
           pl == Unwrap(w.payload)
       IN  \E r \in ProviderSendResults(TRUE), spawned \in BOOLEAN :
             IF ~r.ok
             THEN /\ waiters' = [waiters EXCEPT ![k] =
                        Exit(w, Err("Provider", <<"send">>))]
                  /\ files' = files
             ELSE IF ClickFires(r.outcome, pl.on_click) /\ ~spawned
             THEN /\ waiters' = [waiters EXCEPT ![k] =
                        Exit([w EXCEPT !.outcome = r.outcome],
                             Err("Io", <<"click">>))]
                  /\ files' = files
             ELSE /\ waiters' = [waiters EXCEPT ![k] =
                        Exit([w EXCEPT
                                !.outcome = r.outcome,
                                !.clicked =
                                    IF ClickFires(r.outcome, pl.on_click)
                                    THEN Append(@, Click(Unwrap(pl.on_click),
                                                         pl.notification,
                                                         pl.context))
                                    ELSE @,
                                !.child =
                                    IF ClickFires(r.outcome, pl.on_click)
                                    THEN "running" ELSE @],
                             Ok)]
                  /\ files' = FileRemove(files, w.path)
    /\ UNCHANGED <<cfgfile, cmds, platform, now, config, fg, rs, posts, stdout, lsn, req,
                   resp>>

Waiter == \E k \in 1..Len(waiters) : WaiterStart(k) \/ WaiterFinish(k)

\* the exit status of the click command reported to its parent
AfterCommandExit_Observed(result, status) ==
    IF status = "exited 1" THEN Err("Io", <<"command">>) ELSE result

\* what the exit of the click command does to the result of the process
\* that spawned it: handle_click returns after child.spawn() and nothing
\* waits for the child
AfterCommandExit(result, status) == result

\* the command spawned by handle_click exits, with success or not; it may
\* also never do so
ClickCommandExit ==
    /\ \E status \in {"exited 0", "exited 1"} :
         \/ /\ fg.child = "running"
            /\ fg' = [fg EXCEPT !.child = status,
                                !.result = AfterCommandExit(@, status)]
            /\ waiters' = waiters
         \/ /\ \E k \in 1..Len(waiters) :
                 /\ waiters[k].child = "running"
                 /\ waiters' = [waiters EXCEPT ![k] =
                        [@ EXCEPT !.child = status,
                                  !.result = AfterCommandExit(@, status)]]
            /\ fg' = fg
    /\ UNCHANGED <<cfgfile, cmds, platform, now, config, files, rs, posts,
                   stdout, lsn, req, resp>>

\* the wall clock advances
Tick ==
    /\ now < MaxTime
    /\ now' = now + 1
    /\ UNCHANGED <<cfgfile, cmds, platform, config, files, waiters, fg, rs, posts, stdout,
                   lsn, req, resp>>

----------------------------------------------------------------------------
(* The listener: handle_listen *)

ListenerTable(token, require_token, prefix_hostname, allow_hosts, on_click) ==
    [bind |-> None, port |-> None, token |-> token,
     require_token |-> require_token, prefix_hostname |-> prefix_hostname,
     allow_hosts |-> allow_hosts, on_click |-> on_click]

DefaultListenerConfig == ListenerTable(None, None, None, None, None)

ListenConfigFile(listener) ==
    Some([default_provider |-> None, macos |-> None, remote |-> None,
          listener |-> listener, sources |-> None])

Secret == <<"s3cret">>

\* Config files a listener starts from: absent; a [listener] table with a
\* token and an allow-list; one with a token that is not required; one that
\* requires a token without naming one, turns prefixing off and names a
\* click command
ListenConfigs ==
    {None,
     ListenConfigFile(Some(ListenerTable(Some(Secret), None, None,
                                         Some(<<"127.0.0.1">>), None))),
     ListenConfigFile(Some(ListenerTable(Some(Secret), Some(FALSE), None,
                                         None, None))),
     ListenConfigFile(Some(ListenerTable(None, Some(TRUE), Some(FALSE), None,
                                         Some("cfg-focus"))))}

\* ListenArgs (cli.rs)
ListenArgsOf(token, require_token, prefix_hostname, allow_host, on_click, no_click) ==
    [bind |-> None, port |-> None, token |-> token,
     require_token |-> require_token, prefix_hostname |-> prefix_hostname,
     allow_host |-> allow_host, on_click |-> on_click, no_click |-> no_click]

ListenInput(args, exe_focus) == [args |-> args, exe_focus |-> exe_focus]

\* command lines that vary what guards the endpoint
GateListenInputs ==
    {ListenInput(ListenArgsOf(tk, rt, FALSE, ah, None, FALSE),
                 Some("exe focus")) :
        tk \in Opt({Secret}), rt \in BOOLEAN,
        ah \in {<<>>, <<"127.0.0.1", "localhost">>}}

\* command lines that vary how an accepted notification is dispatched
DispatchListenInputs ==
    {ListenInput(ListenArgsOf(None, FALSE, ph, <<>>, oc, nc), ef) :
        ph \in BOOLEAN, oc \in Opt({"arg-focus"}), nc \in BOOLEAN,
        ef \in Opt({"exe focus"})}

ListenInputs == GateListenInputs \cup DispatchListenInputs

\* the click command looked up without regard to --no-click
ListenOnClick_Configured(args, listener_cfg, exe_focus) ==
    OrOpt(OrOpt(args.on_click, listener_cfg.on_click), exe_focus)

\* the click command of the listener: none with --no-click, else the
\* argument, the [listener] table's, or default_focus_command()
ListenOnClick(args, listener_cfg, exe_focus) ==
    IF args.no_click THEN None
    ELSE OrOpt(OrOpt(args.on_click, listener_cfg.on_click), exe_focus)

\* the settings handle_listen derives from the arguments and the
\* [listener] table; exe_focus is default_focus_command(); the two
\* arguments about clicks are kept next to them
ListenSettings(args, cfg, exe_focus) ==
    LET listener_cfg == IF IsSome(cfg)
                        THEN UnwrapOr(Unwrap(cfg).listener,
                                      DefaultListenerConfig)
                        ELSE DefaultListenerConfig
        token == OrOpt(args.token, listener_cfg.token)
    IN  [state |-> "on",
         token |-> token,
         require_token |->
             IF args.require_token THEN TRUE
             ELSE UnwrapOr(listener_cfg.require_token, IsSome(token)),
         prefix_hostname |->
             IF args.prefix_hostname THEN TRUE
             ELSE UnwrapOr(listener_cfg.prefix_hostname, TRUE),
         allow_hosts |->
             IF args.allow_host # <<>>
             THEN {args.allow_host[i] : i \in 1..Len(args.allow_host)}
             ELSE LET l == UnwrapOr(listener_cfg.allow_hosts, <<>>)
                  IN  {l[i] : i \in 1..Len(l)},
         on_click |-> ListenOnClick(args, listener_cfg, exe_focus),
         no_click |-> args.no_click,
         cli_on_click |-> args.on_click,
         served |-> 0]

\* header names compare with eq_ignore_ascii_case
FieldLower(name) ==
    CASE name = "Authorization" -> "authorization"
      [] name = "X-Wakedev-Token" -> "x-wakedev-token"
      [] OTHER -> name

\* a header value is a sequence of words separated by single spaces;
\* strip_prefix("Bearer ") removes a first word "Bearer" that is followed by
\* a space
StripBearer(value) ==
    IF Len(value) >= 2 /\ value[1] = "Bearer" THEN Some(Tail(value)) ELSE None

RECURSIVE extract_token(_)
extract_token(headers) ==
    IF headers = <<>> THEN None
    ELSE LET h == Head(headers)
         IN  IF /\ FieldLower(h.field) = "authorization"
                /\ IsSome(StripBearer(h.value))
             THEN StripBearer(h.value)
             ELSE IF FieldLower(h.field) = "x-wakedev-token"
             THEN Some(h.value)
             ELSE extract_token(Tail(headers))

\* the allow-list test that lets every peer through
HostAllowed_Any(allow_hosts, host) == TRUE

\* the allow-list test on the peer address
HostAllowed(allow_hosts, host) == \E allowed \in allow_hosts : allowed = host

\* the token test
TokenAccepted(token, incoming) == token = incoming

\* request.url().split('?').next()
UrlPath(url) == url.path

\* the default substituted for the empty title only
DefaultTitle_NoTrim(title) ==
    IF title = <<>> THEN Str_Notification ELSE title

\* the notification the listener hands to deliver_macos: icon cleared,
\* blank title replaced, origin-host suffix appended once
DefaultTitle(title) ==
    IF trim(title) = <<>> THEN Str_Notification ELSE title

HostSuffix(host) == <<" ", "[">> \o host \o <<"]">>

\* the suffix appended without looking at the end of the title
PrefixTitle_Always(title, prefix_hostname, context) ==
    IF /\ prefix_hostname
       /\ IsSome(context)
       /\ IsSome(Unwrap(context).origin_host)
    THEN title \o HostSuffix(Unwrap(Unwrap(context).origin_host))
    ELSE title

PrefixTitle(title, prefix_hostname, context) ==
    IF /\ prefix_hostname
       /\ IsSome(context)
       /\ IsSome(Unwrap(context).origin_host)
    THEN LET suffix == HostSuffix(Unwrap(Unwrap(context).origin_host))
         IN  IF ends_with(title, suffix) THEN title ELSE title \o suffix
    ELSE title

ListenNotification(envelope, prefix_hostname) ==
    LET n0 == [envelope.notification EXCEPT !.icon = None]
        n1 == [n0 EXCEPT !.title = DefaultTitle(n0.title)]
    IN  [n1 EXCEPT !.title = PrefixTitle(n1.title, prefix_hostname,
                                         envelope.context)]

Response(status, body) == [status |-> status, body |-> body]

\* requests
HeaderLists ==
    {<<>>,
     <<[field |-> "Authorization", value |-> <<"Bearer", "s3cret">>]>>,
     <<[field |-> "authorization", value |-> <<"Bearer", "wrong">>]>>,
     <<[field |-> "Authorization", value |-> <<"Basic", "s3cret">>]>>,
     <<[field |-> "X-Wakedev-Token", value |-> <<"s3cret">>]>>,
     <<[field |-> "Authorization", value |-> <<"Basic", "s3cret">>],
       [field |-> "x-wakedev-token", value |-> <<"s3cret">>]>>,
     <<[field |-> "X-Wakedev-Token", value |-> <<"wrong">>],
       [field |-> "Authorization", value |-> <<"Bearer", "s3cret">>]>>}

Urls ==
    {[path |-> "/ping", query |-> None],
     [path |-> "/notify", query |-> None],
     [path |-> "/notify", query |-> Some("x=1")],
     [path |-> "/health", query |-> None]}

Peers == {"127.0.0.1", "10.0.0.5"}

EnvelopeOf(title, icon, source, context) ==
    [notification |-> MkNotification(title, "m", source, icon, None, None,
                                     None, None),
     context |-> context]

BodyOf(kind, envelope) == [kind |-> kind, envelope |-> envelope]

PlainEnvelope == EnvelopeOf(<<"a">>, None, None, None)

\* bodies: a read error, text that is not a RemoteEnvelope, envelopes
Envelopes ==
    {EnvelopeOf(t, ic, None, cx) :
        t \in {<<>>, <<" ">>, <<"a">>, <<"a", " ", "[", "d", "]">>},
        ic \in Opt({"remote.png"}),
        cx \in {None, Some([origin_host |-> None]),
                Some([origin_host |-> Some(<<"d">>)])}}
      \cup {EnvelopeOf(<<"a">>, None, Some(Str_claude), None)}

RequestOf(method, url, peer, headers, body) ==
    [method |-> method, url |-> url, peer |-> peer, headers |-> headers,
     body |-> body]

NotifyUrl == [path |-> "/notify", query |-> None]

BearerSecret ==
    <<[field |-> "Authorization", value |-> <<"Bearer", "s3cret">>]>>

\* requests that vary method and path
RouteRequests ==
    {RequestOf(m, u, p, h, BodyOf("json", PlainEnvelope)) :
        m \in {"GET", "POST"}, u \in Urls, p \in Peers,
        h \in {<<>>, BearerSecret}}

\* POST /notify requests that vary peer, headers and the kind of body
GateRequests ==
    {RequestOf("POST", NotifyUrl, p, h, b) :
        p \in Peers, h \in HeaderLists,
        b \in {BodyOf("unreadable", PlainEnvelope),
               BodyOf("text", PlainEnvelope),
               BodyOf("json", PlainEnvelope)}}

\* POST /notify requests that vary the envelope
EnvelopeRequests ==
    {RequestOf("POST", NotifyUrl, "127.0.0.1", h, BodyOf("json", e)) :
        h \in {<<>>, BearerSecret}, e \in Envelopes}

Requests == RouteRequests \cup GateRequests \cup EnvelopeRequests

\* handle_listen up to the accept loop
ListenStartOn(inputs) ==
    /\ fg.kind = "none"
    /\ lsn.state = "off"
    /\ \E inp \in inputs :
         lsn' = ListenSettings(inp.args, config, inp.exe_focus)
    /\ fg' = [FgIdle EXCEPT !.kind = "listen", !.pid = ListenPid,
                            !.pc = "accept"]
    /\ UNCHANGED <<cfgfile, cmds, platform, now, config, files, waiters, rs, posts, stdout,
                   req, resp>>

ListenStart == ListenStartOn(ListenInputs)

\* the accept loop with the allow-list consulted before the path
Gate_HostFirst(l, r) ==
    IF l.allow_hosts # {} /\ ~HostAllowed(l.allow_hosts, r.peer)
    THEN Response(403, "forbidden")
    ELSE IF UrlPath(r.url) = "/ping" THEN Response(200, "status ok")
    ELSE IF UrlPath(r.url) # "/notify" THEN Response(404, "not found")
    ELSE IF r.method # "POST" THEN Response(405, "method not allowed")
    ELSE IF l.require_token
            /\ ~TokenAccepted(l.token, extract_token(r.headers))
    THEN Response(401, "unauthorized")
    ELSE IF r.body.kind = "unreadable" THEN Response(400, "invalid body")
    ELSE IF r.body.kind # "json" THEN Response(400, "invalid json")
    ELSE Response(0, "")

\* the accept loop with the body read before the token is looked at
Gate_BodyFirst(l, r) ==
    IF UrlPath(r.url) = "/ping" THEN Response(200, "status ok")
    ELSE IF UrlPath(r.url) # "/notify" THEN Response(404, "not found")
    ELSE IF r.method # "POST" THEN Response(405, "method not allowed")
    ELSE IF l.allow_hosts # {} /\ ~HostAllowed(l.allow_hosts, r.peer)
    THEN Response(403, "forbidden")
    ELSE IF r.body.kind = "unreadable" THEN Response(400, "invalid body")
    ELSE IF r.body.kind # "json" THEN Response(400, "invalid json")
    ELSE IF l.require_token
            /\ ~TokenAccepted(l.token, extract_token(r.headers))
    THEN Response(401, "unauthorized")
    ELSE Response(0, "")

\* the status the listener answers before any dispatch, 0 when the request
\* passes every check
Gate(l, r) ==
    IF UrlPath(r.url) = "/ping" THEN Response(200, "status ok")
    ELSE IF UrlPath(r.url) # "/notify" THEN Response(404, "not found")
    ELSE IF r.method # "POST" THEN Response(405, "method not allowed")
    ELSE IF l.allow_hosts # {} /\ ~HostAllowed(l.allow_hosts, r.peer)
    THEN Response(403, "forbidden")
    ELSE IF l.require_token
            /\ ~TokenAccepted(l.token, extract_token(r.headers))
    THEN Response(401, "unauthorized")
    ELSE IF r.body.kind = "unreadable" THEN Response(400, "invalid body")
    ELSE IF r.body.kind # "json" THEN Response(400, "invalid json")
    ELSE Response(0, "")

\* one pass of the accept loop up to the response or the call of
\* deliver_macos
ListenRequestOn(requests, bound) ==
    /\ fg.kind = "listen"
    /\ fg.pc = "accept"
    /\ lsn.served < bound
    /\ \E r \in requests, ctx \in {x \in Contexts : x # None},
          bundle \in Opt({"com.wakedev.claude"}) :
         LET f0 == [FgIdle EXCEPT !.kind = "listen", !.pid = ListenPid,
                                  !.pc = "accept"]
             g == Gate(lsn, r)
             n == ListenNotification(r.body.envelope, lsn.prefix_hostname)
         IN  /\ req' = Some(r)
             /\ lsn' = [lsn EXCEPT !.served = @ + 1]
             /\ IF g.status # 0
                THEN /\ resp' = <<g>>
                     /\ fg' = f0
                ELSE /\ resp' = <<>>
                     /\ fg' = [f0 EXCEPT
                                 !.pc = "deliver", !.via = "listen",
                                 !.d = Some(DeliverArgs(n,
                                       resolve_macos_config(config,
                                           SourceConfigOf(config, n),
                                           n.source, bundle),
                                       lsn.on_click, IsSome(lsn.on_click),
                                       FALSE, FALSE, ctx))]
    /\ UNCHANGED <<cfgfile, cmds, platform, now, config, files, waiters, rs, posts, stdout>>

ListenRequest == ListenRequestOn(Requests, MaxRequests)

\* the 200 response sent while deliver_macos is still to be called
ListenRespond_Early ==
    /\ fg.kind = "listen"
    /\ fg.pc \in {"deliver", "respond"}
    /\ resp = <<>>
    /\ resp' = Append(resp, Response(200, "status ok"))
    /\ fg' = [fg EXCEPT !.pc = IF @ = "respond" THEN "accept" ELSE @]
    /\ UNCHANGED <<cfgfile, cmds, platform, now, config, files, waiters, rs, posts, stdout,
                   lsn, req>>

\* deliver_macos has returned (its result is dropped): respond 200
ListenRespond ==
    /\ fg.kind = "listen"
    /\ fg.pc = "respond"
    /\ resp' = Append(resp, Response(200, "status ok"))
    /\ fg' = [fg EXCEPT !.pc = "accept"]
    /\ UNCHANGED <<cfgfile, cmds, platform, now, config, files, waiters, rs, posts, stdout,
                   lsn, req>>

----------------------------------------------------------------------------
(* The config file: handle_config_set and handle_remote_forward *)

\* toml_edit values
StrVal(s) == [str |-> s]

BoolVal(b) == [bool |-> b]

IntVal(n) == [int |-> n]

\* a document is a function from the dotted paths of its values to the
\* values; doc.get(..).and_then(..get(..))
Get(doc, path) == IF path \in DOMAIN doc THEN Some(doc[path]) ELSE None

AsStr(v) ==
    IF IsSome(v) /\ "str" \in DOMAIN Unwrap(v) THEN Some(Unwrap(v).str)
    ELSE None

AsBool(v) ==
    IF IsSome(v) /\ "bool" \in DOMAIN Unwrap(v) THEN Some(Unwrap(v).bool)
    ELSE None

AsInt(v) ==
    IF IsSome(v) /\ "int" \in DOMAIN Unwrap(v) THEN Some(Unwrap(v).int)
    ELSE None

\* str::parse::<i64>() on the words the inputs use
ParseInt(raw) == CASE raw = "7" -> Some(7) [] OTHER -> None

\* parse_config_value: true and false in any case, then an integer, then a
\* string
parse_config_value(raw) ==
    IF LowerName(raw) = "true" THEN BoolVal(TRUE)
    ELSE IF LowerName(raw) = "false" THEN BoolVal(FALSE)
    ELSE IF IsSome(ParseInt(raw)) THEN IntVal(Unwrap(ParseInt(raw)))
    ELSE StrVal(raw)

\* DocumentMut::remove: the value or table at the path goes
RemoveKey(doc, key) ==
    [p \in {q \in DOMAIN doc : ~starts_with(q, key)} |-> doc[p]]

\* the value written over whatever stands at the path
set_toml_key_Merged(doc, key, value) ==
    [p \in DOMAIN doc \cup {key} |->
        IF p \in DOMAIN doc THEN doc[p] ELSE value]

\* set_toml_key: a value met on the way to the key is replaced by a table,
\* and the value is written over whatever stands at the key
set_toml_key(doc, key, value) ==
    LET keep == {p \in DOMAIN doc :
                    ~starts_with(key, p) /\ ~starts_with(p, key)}
    IN  [p \in keep \cup {key} |-> IF p = key THEN value ELSE doc[p]]

\* set_remote_field: nothing is set when `remote` is not a table
set_remote_field(doc, key, value) ==
    IF <<"remote">> \in DOMAIN doc THEN doc
    ELSE set_toml_key(doc, <<"remote", key>>, value)

remote_url_from_doc(doc) == AsStr(Get(doc, <<"remote", "url">>))

remote_host_from_doc(doc) ==
    LET host == AsStr(Get(doc, <<"remote", "host">>))
        url == remote_url_from_doc(doc)
    IN  IF IsSome(host) THEN host
        ELSE IF IsSome(url) /\ IsSome(parse_remote_url(Unwrap(url)))
        THEN Some(Unwrap(parse_remote_url(Unwrap(url)))[1])
        ELSE None

remote_port_from_doc(doc) ==
    LET port == AsInt(Get(doc, <<"remote", "port">>))
        url == remote_url_from_doc(doc)
    IN  IF IsSome(port) /\ Unwrap(port) \in 0..65535 THEN port
        ELSE IF IsSome(url) /\ IsSome(parse_remote_url(Unwrap(url)))
        THEN Some(Unwrap(parse_remote_url(Unwrap(url)))[2])
        ELSE None

\* forward_enabled: the flag when it is a boolean, else whether
\* default_provider is "remote"
forward_enabled(doc) ==
    LET flag == AsBool(Get(doc, <<"remote", "forward_enabled">>))
    IN  IF IsSome(flag) THEN Unwrap(flag)
        ELSE AsStr(Get(doc, <<"default_provider">>)) = Some("remote")

\* load_config: the document read into the typed Config; toml::from_str
\* fails when a key has a value of another type
load_config(doc) ==
    LET key(name) == Get(doc, <<"remote", name>>)
        typed == /\ Get(doc, <<"remote">>) = None
                 /\ \A path \in DOMAIN doc :
                       CASE path = <<"default_provider">> -> IsSome(AsStr(Some(doc[path])))
                         [] path = <<"remote", "port">> ->
                               /\ IsSome(AsInt(Some(doc[path])))
                               /\ Unwrap(AsInt(Some(doc[path]))) \in 0..65535
                         [] path = <<"remote", "forward_enabled">> ->
                               IsSome(AsBool(Some(doc[path])))
                         [] OTHER -> IsSome(AsStr(Some(doc[path])))
        remote == IF \E path \in DOMAIN doc : Head(path) = "remote"
                  THEN Some([RemoteTable(AsStr(key("host")),
                                         AsInt(key("port")),
                                         AsStr(key("url")), None, None,
                                         AsBool(key("forward_enabled")))
                               EXCEPT !.token = AsStr(key("token")),
                                      !.previous_provider =
                                          AsStr(key("previous_provider"))])
                  ELSE None
    IN  IF typed
        THEN [result |-> Ok,
              config |-> ConfigFile(AsStr(Get(doc, <<"default_provider">>)),
                                    remote, None)]
        ELSE [result |-> Err("Toml", <<>>), config |-> None]

\* enabling with the current default_provider always remembered
EnableForward_Overwriting(doc) ==
    LET d3 == IF remote_port_from_doc(doc) = None
              THEN set_remote_field(doc, "port", IntVal(DefaultPort))
              ELSE doc
        current == AsStr(Get(d3, <<"default_provider">>))
        d4 == IF IsSome(current)
              THEN set_remote_field(d3, "previous_provider",
                                    StrVal(Unwrap(current)))
              ELSE d3
    IN  set_remote_field(
            set_toml_key(d4, <<"default_provider">>, StrVal("remote")),
            "forward_enabled", BoolVal(TRUE))

\* handle_remote_forward, enabling, once a host is known
EnableForward(doc) ==
    LET d3 == IF remote_port_from_doc(doc) = None
              THEN set_remote_field(doc, "port", IntVal(DefaultPort))
              ELSE doc
        current == AsStr(Get(d3, <<"default_provider">>))
        d4 == IF IsSome(current) /\ Unwrap(current) # "remote"
              THEN set_remote_field(d3, "previous_provider",
                                    StrVal(Unwrap(current)))
              ELSE d3
    IN  set_remote_field(
            set_toml_key(d4, <<"default_provider">>, StrVal("remote")),
            "forward_enabled", BoolVal(TRUE))

\* handle_remote_forward, disabling
DisableForward(doc, plat) ==
    LET d1 == set_remote_field(doc, "forward_enabled", BoolVal(FALSE))
        previous == AsStr(Get(d1, <<"remote", "previous_provider">>))
    IN  IF IsSome(previous)
        THEN IF Unwrap(previous) # "remote"
             THEN set_toml_key(d1, <<"default_provider">>,
                               StrVal(Unwrap(previous)))
             ELSE d1
        ELSE IF plat = "macos"
        THEN set_toml_key(d1, <<"default_provider">>, StrVal("macos"))
        ELSE RemoveKey(d1, <<"default_provider">>)

\* the host check skipped
MissingHost_Never(doc) == FALSE

\* remote_host_from_doc(&doc).is_none()
MissingHost(doc) == remote_host_from_doc(doc) = None

\* handle_remote_forward between the read and the write: the new document,
\* whether it is written, the result and the line printed
ForwardResult(doc, args, plat) ==
    LET enabled == forward_enabled(doc)
        desired == CASE args.state = "toggle" -> ~enabled
                     [] args.state = "on" -> TRUE
                     [] OTHER -> FALSE
        d1 == IF IsSome(args.host)
              THEN set_remote_field(doc, "host", StrVal(Unwrap(args.host)))
              ELSE doc
        d2 == IF IsSome(args.port)
              THEN set_remote_field(d1, "port", IntVal(Unwrap(args.port)))
              ELSE d1
    IN  IF args.state = "status"
        THEN [doc |-> doc, write |-> FALSE, result |-> Ok,
              out |-> <<IF enabled THEN "on" ELSE "off">>]
        ELSE IF desired /\ MissingHost(d2)
        THEN [doc |-> d2, write |-> FALSE,
              result |-> Err("RemoteForwardMissingHost", <<>>), out |-> <<>>]
        ELSE IF desired
        THEN [doc |-> EnableForward(d2), write |-> TRUE, result |-> Ok,
              out |-> <<"remote forwarding enabled">>]
        ELSE [doc |-> DisableForward(doc, plat), write |-> TRUE, result |-> Ok,
              out |-> <<"remote forwarding disabled">>]

\* handle_config_set between the read and the write
SetResult(doc, args) ==
    [doc |-> set_toml_key(doc, args.key, parse_config_value(args.value)),
     write |-> TRUE, result |-> Ok, out |-> <<"set">>]

NoConfigFile == [doc |-> <<>>, writes |-> 0]

\* the invocations started and those in progress or last finished; orig is
\* the default_provider read by the first of the successful
\* `remote forward on` that were run last, one after the other, when it was
\* a provider other than "remote"
NoCmds == [started |-> 0, procs |-> <<>>, orig |-> None]

\* a `remote forward` invocation with the given state that wrote the file
\* and returned Ok
ForwardDone(c, state) ==
    /\ c.kind = "forward"
    /\ c.args.state = state
    /\ c.pc = "done"
    /\ c.result = Ok
    /\ c.wrote > 0

\* default_provider of a document when it is a string
DefaultProviderOf(doc) == AsStr(Get(doc, <<"default_provider">>))

NewCmd(kind, args) ==
    [kind |-> kind, args |-> args, pc |-> "start", read |-> <<>>,
     doc |-> <<>>, seen |-> 0, wrote |-> 0, result |-> Running, out |-> <<>>]

\* an invocation starts; when the invocations are run one after the other
\* only the last one is kept
CmdStartOn(inputs, concurrent, bound) ==
    /\ cmds.started < bound
    /\ concurrent \/ \A k \in 1..Len(cmds.procs) : cmds.procs[k].pc = "done"
    /\ \E c \in inputs :
         cmds' = [started |-> cmds.started + 1,
                  procs |-> IF concurrent THEN Append(cmds.procs, c)
                            ELSE <<c>>,
                  orig |-> IF /\ ~concurrent
                              /\ cmds.procs # <<>>
                              /\ ForwardDone(cmds.procs[1], "on")
                           THEN cmds.orig ELSE None]
    /\ UNCHANGED <<cfgfile, platform, now, config, files, waiters, fg, rs,
                   posts, stdout, lsn, req, resp>>

\* fs::read_to_string(&path).unwrap_or_default() and the parse
CmdRead(k) ==
    /\ k \in 1..Len(cmds.procs)
    /\ cmds.procs[k].pc = "start"
    /\ cmds' = [cmds EXCEPT !.procs[k] =
                   [@ EXCEPT !.pc = "loaded", !.read = cfgfile.doc,
                             !.doc = cfgfile.doc, !.seen = cfgfile.writes]]
    /\ UNCHANGED <<cfgfile, platform, now, config, files, waiters, fg, rs,
                   posts, stdout, lsn, req, resp>>

\* the rest of the handler: the document is changed, written back with
\* fs::write, which can fail, and the line is printed
CmdFinish(k) ==
    /\ k \in 1..Len(cmds.procs)
    /\ cmds.procs[k].pc = "loaded"
    /\ LET c == cmds.procs[k]
           r == IF c.kind = "set" THEN SetResult(c.doc, c.args)
                ELSE ForwardResult(c.doc, c.args, platform)
       IN  \E ok \in BOOLEAN :
             IF ~r.write
             THEN /\ cfgfile' = cfgfile
                  /\ cmds' = [cmds EXCEPT !.procs[k] =
                                 [c EXCEPT !.pc = "done", !.doc = r.doc,
                                           !.result = r.result,
                                           !.out = r.out]]
             ELSE IF ok
             THEN /\ cfgfile' = [doc |-> r.doc,
                                 writes |-> cfgfile.writes + 1]
                  /\ cmds' = [cmds EXCEPT
                                !.procs[k] =
                                    [c EXCEPT !.pc = "done", !.doc = r.doc,
                                              !.wrote = cfgfile.writes + 1,
                                              !.result = r.result,
                                              !.out = r.out],
                                !.orig =
                                    IF /\ c.kind = "forward"
                                       /\ c.args.state = "on"
                                       /\ @ = None
                                       /\ DefaultProviderOf(c.read)
                                             # Some("remote")
                                    THEN DefaultProviderOf(c.read)
                                    ELSE @]
             ELSE /\ cfgfile' = cfgfile
                  /\ cmds' = [cmds EXCEPT !.procs[k] =
                                 [c EXCEPT !.pc = "done", !.doc = r.doc,
                                           !.result = Err("Io", <<"write">>)]]
    /\ UNCHANGED <<platform, now, config, files, waiters, fg, rs, posts,
                   stdout, lsn, req, resp>>

Cmd == \E k \in 1..Len(cmds.procs) : CmdRead(k) \/ CmdFinish(k)

\* ConfigSetArgs (cli.rs)
SetInputs ==
    {NewCmd("set", [key |-> k, value |-> v]) :
        k \in {<<"default_provider">>, <<"remote", "host">>,
               <<"remote", "token">>},
        v \in {"macos", "mba"}}

\* RemoteForwardArgs (cli.rs), and the `config set` lines that touch what
\* forwarding reads
ForwardInputs ==
    {NewCmd("forward", [state |-> st, host |-> h, port |-> None]) :
        st \in {"on", "off", "toggle", "status"}, h \in Opt({"mba"})}
      \cup {NewCmd("forward", [state |-> "on", host |-> None,
                               port |-> Some(7)])}
      \cup {NewCmd("set", [key |-> <<"default_provider">>, value |-> v]) :
               v \in {"remote", "Remote", "macos"}}
      \cup {NewCmd("set", [key |-> <<"remote", "forward_enabled">>,
                           value |-> v]) : v \in {"true", "false"}}

\* config files at the start: none, one with a default provider, one with
\* a host, one with a url only
ConfigDocs ==
    {<<>>,
     <<"default_provider">> :> StrVal("telegram"),
     (<<"default_provider">> :> StrVal("macos"))
        @@ (<<"remote", "host">> :> StrVal("mba")),
     <<"remote", "url">> :> StrVal(Url_mba)}

InitConfig ==
    /\ cfgfile \in {[doc |-> d, writes |-> 0] : d \in ConfigDocs}
    /\ cmds = NoCmds
    /\ platform \in Platforms
    /\ now = 0
    /\ config = None
    /\ files = <<>>
    /\ waiters = <<>>
    /\ fg = FgIdle
    /\ rs = RsIdle
    /\ posts = <<>>
    /\ stdout = <<>>
    /\ lsn = LsnOff
    /\ req = NoReq
    /\ resp = <<>>

\* two `config set` invocations that can overlap
SetStart == CmdStartOn(SetInputs, TRUE, MaxSets)

NextConfig ==
    \/ SetStart
    \/ Cmd

SpecConfig == InitConfig /\ [][NextConfig]_vars

\* `remote forward` and `config set` invocations run one after the other
ForwardStart == CmdStartOn(ForwardInputs, FALSE, MaxForwards)

NextForward ==
    \/ ForwardStart
    \/ Cmd

SpecForward == InitConfig /\ [][NextForward]_vars

----------------------------------------------------------------------------
(* Specifications *)

Init ==
    /\ cfgfile = NoConfigFile
    /\ cmds = NoCmds
    /\ platform \in Platforms
    /\ now = 0
    /\ config \in Configs
    /\ files = <<>>
    /\ waiters = <<>>
    /\ fg = FgIdle
    /\ rs = RsIdle
    /\ posts = <<>>
    /\ stdout = <<>>
    /\ lsn = LsnOff
    /\ req = NoReq
    /\ resp = <<>>

DeliverMacos ==
    \/ DeliverBackgroundOpen
    \/ DeliverBackgroundWrite
    \/ DeliverBackgroundSpawn
    \/ DeliverForegroundCall
    \/ DeliverForegroundReturn

NextSend ==
    \/ SendStart
    \/ RemotePing
    \/ RemoteAttempt
    \/ RemoteFinish
    \/ DeliverMacos
    \/ Waiter
    \/ ClickCommandExit

SpecSend == Init /\ [][NextSend]_vars

\* the steps of an invocation that has started: each HTTP request of
\* send_remote_request returns (ureq's connect and read timeouts), and so
\* does each call of deliver_macos
SendSteps == RemoteAttempt \/ RemoteFinish \/ DeliverMacos

SpecSendFair == Init /\ [][NextSend]_vars /\ WF_vars(SendSteps)

InitListen ==
    /\ cfgfile = NoConfigFile
    /\ cmds = NoCmds
    /\ platform \in Platforms
    /\ now = 0
    /\ config \in ListenConfigs
    /\ files = <<>>
    /\ waiters = <<>>
    /\ fg = FgIdle
    /\ rs = RsIdle
    /\ posts = <<>>
    /\ stdout = <<>>
    /\ lsn = LsnOff
    /\ req = NoReq
    /\ resp = <<>>

NextListen ==
    \/ ListenStart
    \/ ListenRequest
    \/ ListenRespond
    \/ DeliverMacos

SpecListen == InitListen /\ [][NextListen]_vars


\* The listener and the waiters it detaches, on a few requests: the
\* lifetime of payload files
HandoffListenInputs ==
    {ListenInput(ListenArgsOf(None, FALSE, FALSE, <<>>, None, nc),
                 Some("exe focus")) : nc \in BOOLEAN}

HandoffRequests ==
    {RequestOf("POST", NotifyUrl, "127.0.0.1", <<>>,
               BodyOf("json", EnvelopeOf(t, None, None, None))) :
        t \in {<<"a">>, <<"b">>}}

HandoffStart == ListenStartOn(HandoffListenInputs)

\* requests accepted while the dispatch of the previous one is in progress
HandoffRequest_Overlapping ==
    \/ ListenRequestOn(HandoffRequests, MaxHandoffs)
    \/ /\ fg.kind = "listen"
       /\ fg.pc # "accept"
       /\ lsn.served < MaxHandoffs
       /\ \E r \in HandoffRequests : req' = Some(r)
       /\ lsn' = [lsn EXCEPT !.served = @ + 1]
       /\ UNCHANGED <<cfgfile, cmds, platform, now, config, files, waiters, fg, rs, posts,
                      stdout, resp>>

HandoffRequest == ListenRequestOn(HandoffRequests, MaxHandoffs)

InitHandoff ==
    /\ cfgfile = NoConfigFile
    /\ cmds = NoCmds
    /\ platform \in Platforms
    /\ now = 0
    /\ config = None
    /\ files = <<>>
    /\ waiters = <<>>
    /\ fg = FgIdle
    /\ rs = RsIdle
    /\ posts = <<>>
    /\ stdout = <<>>
    /\ lsn = LsnOff
    /\ req = NoReq
    /\ resp = <<>>

NextHandoff ==
    \/ HandoffStart
    \/ HandoffRequest
    \/ ListenRespond
    \/ DeliverMacos
    \/ Waiter
    \/ Tick

SpecHandoff == InitHandoff /\ [][NextHandoff]_vars


----------------------------------------------------------------------------
(* Properties *)

SendOf(provider) == fg.kind = "send" /\ fg.provider = Some(provider)

\* C1: a send with background requested and no on-click command, resolved
\* to the local or to the remote provider, has failed with
\* BackgroundRequiresOnClick when handle_send has looked at its arguments,
\* and no payload file is written and no waiter is spawned for it.
C1_BackgroundRequiresOnClick ==
    ( /\ fg.kind = "send"
      /\ fg.provider \in {Some("macos"), Some("remote")}
      /\ Unwrap(fg.args).background
      /\ Unwrap(fg.args).on_click = None )
    => /\ fg.pc = "done"
       /\ fg.result.kind = "BackgroundRequiresOnClick"
       /\ files = <<>>
       /\ waiters = <<>>

\* send_remote_request has been called and has returned
RelayReturned ==
    /\ fg.kind = "send"
    /\ IsSome(rs.target)
    /\ fg.pc # "remote_loop"

AllAttemptsFailed == \A k \in 1..Len(posts) : ~IsSuccess(posts[k].response)

\* C2: when send_remote_request has returned, it has issued exactly
\* retries + 1 POST requests if every attempt failed, and exactly one if the
\* first attempt got a 2xx status.
C2_AttemptCount ==
    RelayReturned
    => /\ AllAttemptsFailed => Len(posts) = rs.retries + 1
       /\ (Len(posts) >= 1 /\ IsSuccess(posts[1].response)) => Len(posts) = 1

C2_Witness ==
    /\ RelayReturned
    /\ AllAttemptsFailed
    /\ rs.retries >= 1
    /\ Len(posts) = rs.retries + 1
    /\ \E k \in 1..Len(posts) : posts[k].response.kind = "transport"
    /\ \E k \in 1..Len(posts) : posts[k].response.kind = "status"

\* C3: in a remote send, local delivery is entered as fallback only when
\* the full budget of retries + 1 requests has been issued and has failed,
\* fallback is enabled and the platform has a local provider; with fallback
\* disabled, a send whose relay requests all failed returns the relay's
\* error, a provider error that starts with "remote error", and delivers
\* nothing locally.
C3_FallbackOnlyAfterBudget ==
    /\ (fg.kind = "send" /\ fg.via = "fallback")
       => /\ Len(posts) = rs.retries + 1
          /\ AllAttemptsFailed
          /\ rs.fallback
          /\ platform = "macos"
    /\ (SendOf("remote") /\ IsSome(rs.target) /\ ~rs.fallback
          /\ fg.pc = "done" /\ rs.send_result # Ok)
       => /\ fg.result = rs.send_result
          /\ fg.result.kind = "Provider"
          /\ fg.result.msg[1] = "remote error"
          /\ fg.d = None
          /\ files = <<>>
          /\ waiters = <<>>

\* C7: every envelope a remote send posts carries a notification without
\* icon whose other fields are those of the notification handle_send built.
C7_EnvelopeWithoutIcon ==
    \A k \in 1..Len(posts) :
        fg.kind = "send" =>
        LET sent == posts[k].body.notification
            orig == Unwrap(rs.notification)
        IN  /\ sent.icon = None
            /\ \A f \in DOMAIN orig \ {"icon"} : sent[f] = orig[f]

C7_Witness ==
    /\ fg.kind = "send"
    /\ Len(posts) >= 1
    /\ Unwrap(rs.notification).icon = Some("src.icns")
    /\ posts[1].body.notification.icon = None


\* the listener's last request is a POST to /notify
NotifyPost ==
    /\ IsSome(req)
    /\ Unwrap(req).method = "POST"
    /\ UrlPath(Unwrap(req).url) = "/notify"

\* the peer of the last request passes the allow-list
PeerAdmitted ==
    lsn.allow_hosts = {} \/ Unwrap(req).peer \in lsn.allow_hosts

Incoming == extract_token(Unwrap(req).headers)

\* the last request had no part in local delivery: deliver_macos was not
\* called, so no payload file, no waiter and no provider call come from it
NotDispatched ==
    /\ fg.d = None
    /\ fg.path = None
    /\ fg.spawned = None
    /\ fg.sent = <<>>

Answered(status, body) == resp = <<Response(status, body)>>

\* C4: a POST /notify that reaches the token check while require_token is
\* true and that carries no token, or a token different from the configured
\* one, is answered 401 and is not dispatched.
C4_BadTokenRejected ==
    ( /\ NotifyPost
      /\ PeerAdmitted
      /\ lsn.require_token
      /\ (Incoming = None \/ Incoming # lsn.token) )
    => /\ Answered(401, "unauthorized")
       /\ NotDispatched

\* C5: with require_token true and no token configured, every POST /notify
\* that reaches the token check is answered 401, whether it carries a token
\* or not, and is not dispatched.
C5_NoTokenConfiguredRejectsAll ==
    ( /\ NotifyPost
      /\ PeerAdmitted
      /\ lsn.require_token
      /\ lsn.token = None )
    => /\ Answered(401, "unauthorized")
       /\ NotDispatched

\* C6: with a non-empty allow-list, a POST /notify from a peer that is not
\* listed is answered 403, whatever its token and body, and is not
\* dispatched.
C6_UnlistedPeerForbidden ==
    ( /\ NotifyPost
      /\ lsn.allow_hosts # {}
      /\ Unwrap(req).peer \notin lsn.allow_hosts )
    => /\ Answered(403, "forbidden")
       /\ NotDispatched

C6_Witness ==
    /\ NotifyPost
    /\ lsn.allow_hosts # {}
    /\ Unwrap(req).peer \notin lsn.allow_hosts
    /\ lsn.require_token
    /\ Incoming # lsn.token
    /\ Unwrap(req).body.kind = "text"
    /\ Answered(403, "forbidden")

\* C8: the notification the listener hands to local delivery has a title
\* that is neither empty nor blank, an empty or blank received title having
\* been replaced by "Notification", and it has no icon.
C8_DispatchedTitleAndIcon ==
    (fg.kind = "listen" /\ IsSome(fg.d))
    => LET n == Unwrap(fg.d).notification
           e == Unwrap(req).body.envelope
       IN  /\ n.title # <<>>
           /\ trim(n.title) # <<>>
           /\ n.icon = None
           /\ trim(e.notification.title) = <<>>
              => SubSeq(n.title, 1, Len(Str_Notification)) = Str_Notification

C8_Witness ==
    /\ fg.kind = "listen"
    /\ IsSome(fg.d)
    /\ Unwrap(req).body.envelope.notification.title = <<" ">>
    /\ IsSome(Unwrap(req).body.envelope.notification.icon)
    /\ Unwrap(fg.d).notification.title = Str_Notification

\* C9: on macOS, once a waiter that read its payload has exited, with
\* whatever outcome or error, its payload file no longer exists.
C9_PayloadRemovedAfterWait ==
    \A k \in 1..Len(waiters) :
        ( /\ platform = "macos"
          /\ waiters[k].pc = "exited"
          /\ waiters[k].observed = "complete" )
        => waiters[k].path \notin DOMAIN files

\* C10: a waiter exists only after its payload file has been written in
\* full, it never finds the file missing or partly written, a failed write
\* spawns no waiter, and its stdin, stdout and stderr are detached.
C10_PayloadBeforeWaiter ==
    /\ \A k \in 1..Len(waiters) :
         /\ waiters[k].observed \in {"none", "complete"}
         /\ waiters[k].stdin = "null"
         /\ waiters[k].stdout = "null"
         /\ waiters[k].stderr = "null"
    /\ fg.pc = "spawn"
       => /\ Unwrap(fg.path) \in DOMAIN files
          /\ files[Unwrap(fg.path)]
               = Complete(EncodePayload(MkPayload(Unwrap(fg.d))))
    /\ fg.result = Err("Io", <<"write_payload">>) => fg.spawned = None


\* handle_click was called with this outcome and command and tried to spawn
ClickRan(clicked, result) ==
    clicked # <<>> \/ result = Err("Io", <<"click">>)

\* the rule of handle_click on one finished provider call
ClickRule(outcome, on_click, clicked, result, n, context) ==
    LET fires == /\ IsSome(on_click)
                 /\ outcome \in {Some("Clicked"), Some("ActionButton")}
    IN  /\ ClickRan(clicked, result) <=> fires
        /\ ~fires => (clicked = <<>> /\ result = Ok)
        /\ clicked # <<>>
           => clicked = <<Click(Unwrap(on_click), n, context)>>

\* the foreground provider call returned a report
FgSendReturned ==
    /\ fg.pc \in {"done", "respond"}
    /\ IsSome(fg.d)
    /\ fg.sent # <<>>
    /\ fg.result \in {Ok, Err("Io", <<"click">>)}

WaiterSendReturned(k) ==
    /\ waiters[k].pc = "exited"
    /\ waiters[k].sent # <<>>
    /\ waiters[k].result \in {Ok, Err("Io", <<"click">>)}

\* C11: after a provider call that returned a report, in the foreground path
\* and in the detached waiter alike, the on-click command was spawned (or
\* its spawn attempted) exactly when a command is present and the outcome is
\* Clicked or ActionButton; for every other outcome, and for no outcome,
\* nothing is spawned and the result is success.
C11_ClickPolicy ==
    /\ FgSendReturned
       => ClickRule(fg.outcome, Unwrap(fg.d).on_click, fg.clicked, fg.result,
                    Unwrap(fg.d).notification, Unwrap(fg.d).context)
    /\ \A k \in 1..Len(waiters) :
         WaiterSendReturned(k)
         => LET payload == Unwrap(waiters[k].payload)
            IN  ClickRule(waiters[k].outcome, payload.on_click,
                          waiters[k].clicked, waiters[k].result,
                          payload.notification, payload.context)

C11_Witness ==
    \E k \in 1..Len(waiters) :
        /\ WaiterSendReturned(k)
        /\ waiters[k].outcome = Some("ActionButton")
        /\ waiters[k].clicked # <<>>


C13_NoTargetFailsAtOnce ==
    (SendOf("remote") /\ rs.target = None)
    => /\ posts = <<>>
       /\ fg.d = None
       /\ fg.sent = <<>>
       /\ files = <<>>
       /\ waiters = <<>>
       /\ fg.pc \in {"remote_done", "done"}
       /\ fg.pc = "done"
          => fg.result = Err("Provider", <<"remote host is not configured">>)

\* the forwarding flag of the persisted configuration is set to true
ForwardOn ==
    /\ IsSome(config)
    /\ IsSome(Unwrap(config).remote)
    /\ Unwrap(Unwrap(config).remote).forward_enabled = Some(TRUE)

ConfiguredDefault ==
    IF IsSome(config) THEN Unwrap(config).default_provider ELSE None

\* C14: the provider a send resolves is the first that applies of: the
\* explicit override in lower case, "remote" when forward_enabled is true,
\* the configured default_provider in lower case, "macos" on macOS; when
\* none applies the send fails with NoProviderAvailable.
C14_ProviderOrder ==
    fg.kind = "send"
    => LET o == Unwrap(fg.args).provider
           dp == ConfiguredDefault
       IN  /\ IsSome(o) => fg.provider = Some(LowerName(Unwrap(o)))
           /\ o = Some("Remote") => fg.provider = Some("remote")
           /\ (o = None /\ ForwardOn) => fg.provider = Some("remote")
           /\ (o = None /\ ~ForwardOn /\ IsSome(dp))
              => fg.provider = Some(LowerName(Unwrap(dp)))
           /\ (o = None /\ ~ForwardOn /\ dp = None /\ platform = "macos")
              => fg.provider = Some("macos")
           /\ (o = None /\ ~ForwardOn /\ dp = None /\ platform # "macos")
              => /\ fg.provider = None
                 /\ fg.pc = "done"
                 /\ fg.result = Err("NoProviderAvailable", <<>>)

\* an explicit override that wins over an enabled forwarding flag
C14_Witness ==
    /\ fg.kind = "send"
    /\ Unwrap(fg.args).provider = Some("macos")
    /\ ForwardOn
    /\ fg.provider = Some("macos")

\* the [remote] table the send reads
RemoteCfg ==
    IF IsSome(config) /\ IsSome(Unwrap(config).remote)
    THEN Unwrap(Unwrap(config).remote)
    ELSE DefaultRemoteConfig

RemoteResolved == SendOf("remote") /\ fg.pc # "idle"

\* C15: the endpoint of a remote send comes from the first present of:
\* the explicit host (with the explicit port or the default port), the
\* configured host (with the explicit, else the configured, else the
\* default port), the configured URL when it parses to host:port (with the
\* explicit port, else its own); a later source has no effect on the
\* result, and the target is absent exactly when none of the three yields
\* a host.
C15_TargetPrecedence ==
    RemoteResolved
    => LET c == RemoteCfg
           parsed == IF IsSome(c.url) THEN parse_remote_url(Unwrap(c.url))
                     ELSE None
       IN  /\ IsSome(rs.cli_host)
              => rs.target = Some(MkTarget(Unwrap(rs.cli_host),
                                           UnwrapOr(rs.cli_port, DefaultPort)))
           /\ (rs.cli_host = None /\ IsSome(c.host))
              => rs.target = Some(MkTarget(Unwrap(c.host),
                                    UnwrapOr(OrOpt(rs.cli_port, c.port),
                                             DefaultPort)))
           /\ (rs.cli_host = None /\ c.host = None /\ IsSome(parsed))
              => rs.target = Some(MkTarget(Unwrap(parsed)[1],
                                    UnwrapOr(rs.cli_port, Unwrap(parsed)[2])))
           /\ rs.target = None
              <=> (rs.cli_host = None /\ c.host = None /\ parsed = None)

\* the listener's last request, by method and path
RequestIs(method, path) ==
    /\ IsSome(req)
    /\ Unwrap(req).method = method
    /\ UrlPath(Unwrap(req).url) = path

\* C16: a GET /ping is answered 200 with the status body under every
\* listener configuration, whatever the peer, the allow-list, require_token
\* and the token sent, and it is not dispatched.
C16_PingAlwaysOk ==
    RequestIs("GET", "/ping")
    => /\ Answered(200, "status ok")
       /\ NotDispatched

\* a ping from an unlisted peer without the required token
C16_Witness ==
    /\ RequestIs("GET", "/ping")
    /\ lsn.allow_hosts # {}
    /\ Unwrap(req).peer \notin lsn.allow_hosts
    /\ lsn.require_token
    /\ Incoming # lsn.token
    /\ Answered(200, "status ok")

\* C17: a request that is neither GET /ping nor POST /notify is answered
\* 404 when its path is neither /ping nor /notify and 405 when the path is
\* one of the two and the method is wrong; it meets no host, token or body
\* check and is not dispatched.
C17_OtherRequestsRefused ==
    ( /\ IsSome(req)
      /\ ~RequestIs("GET", "/ping")
      /\ ~RequestIs("POST", "/notify") )
    => /\ NotDispatched
       /\ IF UrlPath(Unwrap(req).url) \in {"/ping", "/notify"}
          THEN Answered(405, "method not allowed")
          ELSE Answered(404, "not found")

\* the last request fails the token check of the accept loop
TokenCheckFails ==
    lsn.require_token /\ Incoming # lsn.token

\* C18: of the POST /notify requests that pass the allow-list, one that
\* fails the token check is answered 401 whatever its body, and one that
\* passes it with an unreadable body or a body that is no RemoteEnvelope is
\* answered 400; neither is dispatched.
C18_TokenBeforeBody ==
    (NotifyPost /\ PeerAdmitted)
    => /\ TokenCheckFails
          => (Answered(401, "unauthorized") /\ NotDispatched)
       /\ (~TokenCheckFails /\ Unwrap(req).body.kind = "unreadable")
          => (Answered(400, "invalid body") /\ NotDispatched)
       /\ (~TokenCheckFails /\ Unwrap(req).body.kind = "text")
          => (Answered(400, "invalid json") /\ NotDispatched)

\* a wrong token with an unreadable body
C18_Witness ==
    /\ NotifyPost
    /\ PeerAdmitted
    /\ TokenCheckFails
    /\ IsSome(Incoming)
    /\ Unwrap(req).body.kind = "unreadable"
    /\ Answered(401, "unauthorized")

SendReturned == fg.kind = "send" /\ fg.pc = "done"

\* the send ended in a background handoff of deliver_macos
HandedOff == IsSome(fg.d) /\ Unwrap(fg.d).background

\* C19: a send that asked for the JSON report and returned success has
\* printed exactly one report line, on the local blocking path, the local
\* background handoff, the remote success and the local fallback alike; the
\* line of a background handoff names the payload file; a send that did not
\* ask for the report, that failed or that has not returned yet has printed
\* nothing.
C19_OneReportLine ==
    fg.kind = "send"
    => IF SendReturned /\ Unwrap(fg.args).json /\ fg.result = Ok
       THEN /\ Len(stdout) = 1
            /\ stdout[1].provider
                 = (IF IsSome(fg.d) THEN "macos" ELSE "remote")
            /\ stdout[1].background = HandedOff
            /\ stdout[1].payload = (IF HandedOff THEN fg.path ELSE None)
            /\ HandedOff => IsSome(fg.path)
            /\ stdout[1].outcome = fg.outcome
       ELSE stdout = <<>>

\* a report after a failed relay and a background handoff by fallback
C19_Witness ==
    /\ SendReturned
    /\ fg.via = "fallback"
    /\ HandedOff
    /\ Len(posts) >= 1
    /\ Len(stdout) = 1
    /\ stdout[1].payload = fg.path
    /\ IsSome(fg.path)

\* C20: the local delivery a remote send falls back to gets the
\* notification handle_send built, icon included, and the on-click
\* command, background flag and wait-for-click flag of the invocation.
C20_FallbackKeepsOriginal ==
    (fg.kind = "send" /\ fg.via = "fallback")
    => LET d == Unwrap(fg.d)
           a == Unwrap(fg.args)
       IN  /\ d.notification = Unwrap(rs.notification)
           /\ d.on_click = a.on_click
           /\ d.background = a.background
           /\ d.wait_for_click = a.wait_for_click

\* a fallback after a posted envelope without icon, delivering the icon
C20_Witness ==
    /\ fg.kind = "send"
    /\ fg.via = "fallback"
    /\ Len(posts) >= 1
    /\ posts[1].body.notification.icon = None
    /\ IsSome(Unwrap(fg.d).notification.icon)
    /\ IsSome(Unwrap(fg.d).on_click)
    /\ Unwrap(fg.d).background

\* the payload of this invocation was written in full and no waiter came
\* of it: the spawn failed
SpawnFailed ==
    /\ fg.pc \in {"done", "respond"}
    /\ IsSome(fg.path)
    /\ fg.spawned = None
    /\ Unwrap(fg.path) \in DOMAIN files
    /\ files[Unwrap(fg.path)].state = "complete"

\* C21: a background send whose waiter could not be spawned returns an I/O
\* error, and the notification is not shown: neither the foreground process
\* nor any waiter calls the provider, and nothing is reported.
C21_SpawnFailureIsIoError ==
    (fg.kind = "send" /\ SpawnFailed)
    => /\ fg.result = Err("Io", <<"spawn">>)
       /\ fg.sent = <<>>
       /\ waiters = <<>>
       /\ stdout = <<>>

C21_Witness ==
    /\ fg.kind = "send"
    /\ SpawnFailed
    /\ fg.via = "direct"
    /\ fg.result.kind = "Io"

\* C22: no payload file remains once the waiter spawn has failed in the
\* foreground, nor once the waiter of the handoff has terminated by
\* returning, with success or with an error.
C22_PayloadLeftOnlyByCrash ==
    (fg.kind = "send" /\ IsSome(fg.path) /\ Unwrap(fg.path) \in DOMAIN files)
    => /\ ~SpawnFailed
       /\ \A k \in 1..Len(waiters) :
            waiters[k].path = Unwrap(fg.path) => waiters[k].pc # "exited"

\* C23: no two handoffs use the same payload path, and every waiter that
\* reads a payload reads the one that was written for it.
C23_PayloadPathsDistinct ==
    \A j, k \in 1..Len(waiters) :
        /\ j # k => waiters[j].path # waiters[k].path
        /\ IsSome(waiters[k].payload)
           => Unwrap(waiters[k].payload) = waiters[k].handoff

\* C24: in a background send with an on-click command the foreground
\* process never calls the
\* provider and never runs the click policy; once the waiter is spawned the
\* foreground has returned with success, and the provider call, with
\* wait_for_click set, the click policy and the removal of the payload are
\* the waiter's, made after the foreground has exited.
C24_ForegroundNeverWaits ==
    ( /\ fg.kind = "send"
      /\ IsSome(fg.d)
      /\ Unwrap(fg.d).background
      /\ IsSome(Unwrap(fg.d).on_click) )
    => /\ fg.sent = <<>>
       /\ fg.pc # "provider"
       /\ fg.outcome = None
       /\ fg.clicked = <<>>
       /\ IsSome(fg.spawned)
          => /\ fg.pc = "done"
             /\ fg.result = Ok
             /\ Unwrap(fg.spawned) \in 1..Len(waiters)
             /\ waiters[Unwrap(fg.spawned)].path = Unwrap(fg.path)
       /\ \A k \in 1..Len(waiters) :
            /\ waiters[k].session = "new"
            /\ waiters[k].pc # "start" => fg.pc = "done"
            /\ \A i \in 1..Len(waiters[k].sent) :
                 waiters[k].sent[i].wait_for_click
            /\ waiters[k].clicked # <<>>
               => /\ waiters[k].path \notin DOMAIN files
                  /\ waiters[k].clicked =
                       <<Click(Unwrap(Unwrap(fg.d).on_click),
                               Unwrap(fg.d).notification,
                               Unwrap(fg.d).context)>>

C24_Witness ==
    /\ fg.kind = "send"
    /\ fg.pc = "done"
    /\ IsSome(fg.spawned)
    /\ waiters[Unwrap(fg.spawned)].pc = "exited"
    /\ waiters[Unwrap(fg.spawned)].clicked # <<>>
    /\ waiters[Unwrap(fg.spawned)].result = Ok
    /\ files = <<>>

\* C25: without background the provider is called at most once by the
\* sending process itself, with wait_for_click true exactly when the
\* wait-for-click flag is set or an on-click command is supplied; the click
\* policy has run only in that case and only after the provider call has
\* returned, and a JSON report is printed only after both.
C25_ForegroundWaitRule ==
    ( /\ fg.kind = "send"
      /\ IsSome(fg.d)
      /\ ~Unwrap(fg.d).background )
    => LET d == Unwrap(fg.d)
           wait == d.wait_for_click \/ d.on_click # None
       IN  /\ waiters = <<>>
           /\ files = <<>>
           /\ Len(fg.sent) <= 1
           /\ \A i \in 1..Len(fg.sent) :
                /\ fg.sent[i].wait_for_click = wait
                /\ fg.sent[i].notification = d.notification
           /\ fg.pc = "provider"
              => (fg.sent # <<>> /\ fg.clicked = <<>> /\ stdout = <<>>)
           /\ ClickRan(fg.clicked, fg.result)
              => (wait /\ fg.sent # <<>> /\ fg.pc = "done")
           /\ (fg.pc = "done" /\ wait /\ fg.result = Ok /\ fg.sent # <<>>)
              => ClickRule(fg.outcome, d.on_click, fg.clicked, fg.result,
                           d.notification, d.context)
           /\ ~wait => (fg.clicked = <<>> /\ fg.outcome \notin
                                                {Some("Clicked"),
                                                 Some("ActionButton")})

C25_Witness ==
    /\ fg.kind = "send"
    /\ IsSome(fg.d)
    /\ ~Unwrap(fg.d).background
    /\ ~Unwrap(fg.d).wait_for_click
    /\ fg.pc = "done"
    /\ fg.sent # <<>>
    /\ fg.sent[1].wait_for_click
    /\ fg.clicked # <<>>
    /\ stdout # <<>>

\* C26: every request of the relay loop but the last has failed, so the loop
\* stops at the first 2xx status; when the loop has returned after k
\* requests of which the last succeeded the result is success; when every
\* request failed the error is the one recorded for the last request; all
\* requests carry the same URL, token and body, and nothing else happens
\* between them: no file is written, no provider is called, nothing is
\* printed and no time passes.
C26_RelayLoop ==
    ( /\ fg.kind = "send"
      /\ IsSome(rs.target) )
    => /\ \A k \in 1..Len(posts) :
            /\ k < Len(posts) => ~IsSuccess(posts[k].response)
            /\ posts[k].url = Unwrap(rs.target).url
            /\ posts[k].token = rs.token
            /\ posts[k].body = Unwrap(rs.envelope)
       /\ Len(posts) = IF rs.send_result = Ok THEN rs.i + 1 ELSE rs.i
       /\ fg.pc = "remote_loop"
          => /\ AllAttemptsFailed
             /\ rs.send_result = Running
             /\ files = <<>> /\ waiters = <<>> /\ stdout = <<>>
             /\ fg.sent = <<>> /\ now = 0
       /\ rs.send_result # Running
          => /\ Len(posts) >= 1
             /\ rs.send_result = Ok
                <=> IsSuccess(posts[Len(posts)].response)
             /\ AllAttemptsFailed
                => rs.send_result.msg
                     = AttemptError(posts[Len(posts)].response)

C26_Witness ==
    /\ RelayReturned
    /\ Len(posts) = 2
    /\ posts[1].response.kind = "transport"
    /\ posts[2].response = [kind |-> "status", code |-> 500]
    /\ rs.send_result = Err("Provider", <<"remote error", "status", 500>>)

\* C27: a remote ping resolves its endpoint from the explicit host, else the
\* configured host, else the configured URL, with the ports a remote send
\* uses; it sends one GET request to that endpoint with /ping in place of
\* /notify and no second one whatever number of retries is configured; a
\* failed request is returned as a provider error, and nothing is delivered
\* locally.
C27_PingOnce ==
    fg.kind = "ping"
    => LET c == RemoteCfg
           parsed == IF IsSome(c.url) THEN parse_remote_url(Unwrap(c.url))
                     ELSE None
           host == IF IsSome(rs.cli_host) THEN rs.cli_host
                   ELSE IF IsSome(c.host) THEN c.host
                   ELSE IF IsSome(parsed) THEN Some(Unwrap(parsed)[1])
                   ELSE None
           port == IF IsSome(rs.cli_host) \/ IsSome(c.host)
                   THEN UnwrapOr(OrOpt(rs.cli_port, c.port), DefaultPort)
                   ELSE IF IsSome(parsed)
                   THEN UnwrapOr(rs.cli_port, Unwrap(parsed)[2])
                   ELSE DefaultPort
       IN  /\ fg.pc = "done"
           /\ Len(posts) = (IF host = None THEN 0 ELSE 1)
           /\ host = None
              => fg.result = Err("Provider",
                                 <<"remote host is not configured">>)
           /\ \A k \in 1..Len(posts) :
                /\ posts[k].method = "GET"
                /\ posts[k].url = Str_http \o Unwrap(host) \o <<":">>
                                    \o DecimalString(port) \o Str_ping_path
                /\ posts[k].token = OrOpt(rs.token, c.token)
                /\ posts[k].response = "ok" <=> fg.result = Ok
                /\ posts[k].response = "error"
                   => fg.result = Err("Provider", <<"remote ping failed">>)
           /\ fg.sent = <<>> /\ fg.via = "none"
           /\ files = <<>> /\ waiters = <<>>
           /\ stdout # <<>> => fg.result = Ok

C27_Witness ==
    /\ fg.kind = "ping"
    /\ RemoteCfg.retries = Some(1)
    /\ rs.cli_host = None
    /\ Len(posts) = 1
    /\ posts[1].response = "error"
    /\ fg.result.kind = "Provider"

\* C28: when the listener is back at accepting, the request it has just
\* handled has got exactly one response and the listener is still on, and
\* a request whose local dispatch failed has got an HTTP error response.
C28_FailuresBecomeErrors ==
    ( /\ fg.kind = "listen"
      /\ fg.pc = "accept"
      /\ IsSome(req) )
    => /\ lsn.state = "on"
       /\ Len(resp) = 1
       /\ (fg.result # Ok /\ fg.result # Running) => resp[1].status >= 400

\* C29: the listener takes a request only when it is at the head of its
\* accept loop and the request before it has got its response; the dispatch
\* made on taking a request is the dispatch of that request; and while a
\* local delivery call has not returned no request is taken and no response
\* is sent.
C29_OneAtATime ==
    [][ /\ (fg.kind = "listen" /\ lsn'.served # lsn.served)
           => /\ fg.pc = "accept"
              /\ lsn'.served = lsn.served + 1
              /\ lsn.served > 0 => Len(resp) = 1
              /\ IsSome(fg'.d)
                 => Unwrap(fg'.d).notification
                      = ListenNotification(Unwrap(req').body.envelope,
                                           lsn.prefix_hostname)
        /\ (fg.kind = "listen" /\ fg.pc # "accept")
           => /\ req' = req
              /\ lsn' = lsn
              /\ resp' # resp => (fg.pc = "respond" /\ fg'.pc = "accept")
      ]_vars

C29_Witness ==
    /\ fg.kind = "listen"
    /\ lsn.served = 2
    /\ fg.pc = "provider"
    /\ resp = <<>>
    /\ Unwrap(req).body.envelope.notification.title = <<"b">>

\* C30: a dispatch of the listener carries the listener's own on-click
\* command, asks for the background handoff exactly when that command is
\* present and never asks to wait for a click; the listener process calls
\* the provider only when it has no command, and then without waiting; it
\* never runs a click command itself; and the response to a dispatched
\* request is sent only after deliver_macos has returned.
C30_ListenerNeverWaits ==
    ( /\ fg.kind = "listen"
      /\ IsSome(fg.d) )
    => LET d == Unwrap(fg.d)
       IN  /\ d.on_click = lsn.on_click
           /\ d.background = IsSome(lsn.on_click)
           /\ ~d.wait_for_click
           /\ ~d.json
           /\ IsSome(lsn.on_click) => (fg.sent = <<>> /\ fg.pc # "provider")
           /\ lsn.on_click = None
              => (fg.path = None /\ fg.spawned = None /\ waiters = <<>>)
           /\ \A i \in 1..Len(fg.sent) : ~fg.sent[i].wait_for_click
           /\ fg.outcome = None
           /\ fg.clicked = <<>>
           /\ \A k \in 1..Len(waiters) :
                waiters[k].handoff.on_click = lsn.on_click
           /\ resp # <<>>
              => /\ fg.pc = "accept"
                 /\ fg.result # Running
                 /\ resp = <<Response(200, "status ok")>>

C30_Witness ==
    /\ fg.kind = "listen"
    /\ IsSome(lsn.on_click)
    /\ IsSome(fg.spawned)
    /\ fg.sent = <<>>
    /\ Answered(200, "status ok")

\* C31: a waiter calls the provider at most once, and exactly once when it
\* has read its payload and built the provider, whether the call fails or
\* not; the listener makes at most one dispatch for a request, a provider
\* call or a handoff, and there are never more waiters than requests taken.
C31_NoRetry ==
    /\ \A k \in 1..Len(waiters) :
         /\ Len(waiters[k].sent) <= 1
         /\ waiters[k].pc = "waiting" => Len(waiters[k].sent) = 1
         /\ (waiters[k].pc = "exited"
               /\ waiters[k].result \in {Ok, Err("Provider", <<"send">>),
                                         Err("Io", <<"click">>)})
            => Len(waiters[k].sent) = 1
    /\ fg.kind = "listen"
       => /\ Len(fg.sent) + (IF IsSome(fg.spawned) THEN 1 ELSE 0) <= 1
          /\ Len(waiters) <= lsn.served
          /\ (fg.pc = "accept" /\ fg.result # Ok /\ fg.result # Running)
             => IsSome(fg.d)

C31_Witness ==
    /\ fg.kind = "listen"
    /\ Len(waiters) = 1
    /\ waiters[1].pc = "exited"
    /\ waiters[1].result = Err("Provider", <<"send">>)
    /\ Len(waiters[1].sent) = 1
    /\ lsn.served = 2
    /\ fg.pc = "accept"
    /\ fg.result = Err("Io", <<"spawn">>)

\* a finished `config set` that wrote the file
SetDone(k) ==
    /\ cmds.procs[k].kind = "set"
    /\ cmds.procs[k].pc = "done"
    /\ cmds.procs[k].wrote > 0

\* the file no longer has the value the invocation k wrote
UpdateLost(k) ==
    LET c == cmds.procs[k]
    IN  \/ c.args.key \notin DOMAIN cfgfile.doc
        \/ cfgfile.doc[c.args.key] # parse_config_value(c.args.value)

\* C32: when a `config set` reads the file a `config set` on another key
\* has just written, what it writes has both keys with their new values and
\* every other key as it was; and an update is missing from the file only
\* when a later writer set the same key or had read the file before that
\* update was written.
C32_LostUpdateOnlyByOverlap ==
    \A i, j \in 1..Len(cmds.procs) :
        ( /\ i # j /\ SetDone(i) /\ SetDone(j)
          /\ cmds.procs[i].args.key # cmds.procs[j].args.key )
        => LET a == cmds.procs[i]
               b == cmds.procs[j]
           IN  /\ b.seen = a.wrote
                  => /\ DOMAIN b.doc = DOMAIN a.doc \cup {b.args.key}
                     /\ b.doc[b.args.key] = parse_config_value(b.args.value)
                     /\ b.doc[a.args.key] = parse_config_value(a.args.value)
                     /\ \A p \in DOMAIN a.doc \ {b.args.key} :
                          b.doc[p] = a.doc[p]
               /\ UpdateLost(i)
                  => \E k \in 1..Len(cmds.procs) :
                       /\ k # i
                       /\ cmds.procs[k].wrote > a.wrote
                       /\ \/ cmds.procs[k].seen < a.wrote
                          \/ cmds.procs[k].args.key = a.args.key

C32_Witness ==
    /\ Len(cmds.procs) = 2
    /\ SetDone(1) /\ SetDone(2)
    /\ cmds.procs[1].args.key # cmds.procs[2].args.key
    /\ cmds.procs[1].args.key \notin DOMAIN cfgfile.doc
    /\ cmds.procs[2].seen < cmds.procs[1].wrote
    /\ cmds.procs[1].result = Ok /\ cmds.procs[2].result = Ok

\* C33: the click command a waiter runs gets the context the foreground
\* process captured: the tmux session, window and pane variables are set,
\* to its values, exactly when that context has tmux facts, the terminal
\* variable exactly when it names a terminal application, and the context
\* JSON variable exactly when a context was captured.
C33_ClickGetsCapturedContext ==
    \A k \in 1..Len(waiters) :
        (fg.kind = "send" /\ waiters[k].clicked # <<>>)
        => LET ctx == Unwrap(fg.d).context
               env == waiters[k].clicked[1].env
               tmux == IF IsSome(ctx) THEN Unwrap(ctx).tmux ELSE None
               term == IF IsSome(ctx) THEN Unwrap(ctx).terminal ELSE None
           IN  /\ IsSome(env.WAKEDEV_TMUX_SESSION) <=> IsSome(tmux)
               /\ IsSome(env.WAKEDEV_TMUX_WINDOW) <=> IsSome(tmux)
               /\ IsSome(env.WAKEDEV_TMUX_PANE) <=> IsSome(tmux)
               /\ IsSome(tmux)
                  => /\ env.WAKEDEV_TMUX_SESSION = Some(Unwrap(tmux).session)
                     /\ env.WAKEDEV_TMUX_WINDOW = Some(Unwrap(tmux).window)
                     /\ env.WAKEDEV_TMUX_PANE = Some(Unwrap(tmux).pane)
                     /\ env.WAKEDEV_TMUX_CLIENT = Unwrap(tmux).client
               /\ IsSome(env.WAKEDEV_TERMINAL_APP)
                  <=> (IsSome(term) /\ IsSome(Unwrap(term).app))
               /\ IsSome(term)
                  => env.WAKEDEV_TERMINAL_APP = Unwrap(term).app
               /\ env.WAKEDEV_CONTEXT_JSON = ctx

C33_Witness ==
    /\ fg.kind = "send"
    /\ Len(waiters) = 1
    /\ waiters[1].clicked # <<>>
    /\ waiters[1].clicked[1].env.WAKEDEV_TMUX_CLIENT = Some("c")
    /\ waiters[1].clicked[1].env.WAKEDEV_TERMINAL_APP = None
    /\ IsSome(waiters[1].clicked[1].env.WAKEDEV_CONTEXT_JSON)

\* C34: a process whose click policy fired has returned with success,
\* whether the command it spawned is still running, has exited with success
\* or has failed; the waiter has removed its payload file and the sending
\* process has printed its report in each of these cases.
C34_ClickNotWaitedOn ==
    /\ (fg.kind = "send" /\ fg.clicked # <<>>)
       => /\ fg.child \in {"running", "exited 0", "exited 1"}
          /\ fg.pc = "done"
          /\ fg.result = Ok
          /\ Unwrap(fg.d).json => stdout # <<>>
    /\ \A k \in 1..Len(waiters) :
         waiters[k].clicked # <<>>
         => /\ waiters[k].child \in {"running", "exited 0", "exited 1"}
            /\ waiters[k].pc = "exited"
            /\ waiters[k].result = Ok
            /\ fg.kind = "send" => waiters[k].path \notin DOMAIN files

C34_Witness ==
    /\ fg.kind = "send"
    /\ Len(waiters) = 1
    /\ waiters[1].child = "running"
    /\ waiters[1].pc = "exited"
    /\ waiters[1].result = Ok
    /\ files = <<>>

\* the calls a send has made so far, counted
StepBounds ==
    fg.kind = "send" =>
        /\ Len(posts) <= rs.retries + 1
        /\ fg.provider # Some("remote") => posts = <<>>
        /\ Len(fg.sent) <= 1
        /\ Len(waiters) <= 1
        /\ ~(fg.sent # <<>> /\ waiters # <<>>)
        /\ fg.via = "fallback"
           => /\ fg.provider = Some("remote")
              /\ rs.send_result \notin {Ok, Running}
              /\ IsSome(rs.target) => Len(posts) = rs.retries + 1

\* C35: a send that has started returns, given that each HTTP request and
\* each provider call returns; until then it has made at most retries + 1
\* requests, and after them at most one local delivery, which is one
\* provider call or one handoff; a local send makes no request.
C35_SendTerminates ==
    /\ []StepBounds
    /\ (fg.kind = "send") ~> (fg.kind = "send" /\ fg.pc = "done")

C35_Witness ==
    /\ fg.kind = "send"
    /\ fg.pc = "done"
    /\ fg.via = "fallback"
    /\ rs.retries = 2
    /\ Len(posts) = 3
    /\ Len(fg.sent) = 1

\* a `remote forward` invocation that asks for forwarding to be on: `on`,
\* or `toggle` read from a file in which forwarding is off
Enabling(c) ==
    /\ c.kind = "forward"
    /\ \/ c.args.state = "on"
       \/ c.args.state = "toggle" /\ ~forward_enabled(c.doc)

\* neither the arguments nor the file read name a host
NoHostKnown(c) ==
    /\ c.args.host = None
    /\ AsStr(Get(c.doc, <<"remote", "host">>)) = None
    /\ LET url == AsStr(Get(c.doc, <<"remote", "url">>))
       IN  IsSome(url) => parse_remote_url(Unwrap(url)) = None

\* C36: when an invocation that enables forwarding knows no host, neither
\* from its arguments nor from the file it read, it returns
\* RemoteForwardMissingHost and the config file is left as it was: nothing
\* is written, forward_enabled and default_provider keep their values.
C36_MissingHostLeavesConfig ==
    [][\A k \in 1..Len(cmds.procs) :
          (/\ cmds.procs[k].pc = "loaded"
           /\ Enabling(cmds.procs[k])
           /\ NoHostKnown(cmds.procs[k])
           /\ cmds'.procs[k].pc = "done")
          => /\ cmds'.procs[k].result = Err("RemoteForwardMissingHost", <<>>)
             /\ cmds'.procs[k].out = <<>>
             /\ cfgfile' = cfgfile
             /\ cfgfile'.doc = cmds.procs[k].doc
             /\ forward_enabled(cfgfile'.doc)
                  = forward_enabled(cmds.procs[k].doc)
             /\ Get(cfgfile'.doc, <<"default_provider">>)
                  = Get(cmds.procs[k].doc, <<"default_provider">>)]_vars

C36_Witness ==
    /\ Len(cmds.procs) = 1
    /\ cmds.procs[1].kind = "forward"
    /\ cmds.procs[1].args.state = "toggle"
    /\ cmds.procs[1].args.port = None
    /\ cmds.procs[1].pc = "done"
    /\ cmds.procs[1].result = Err("RemoteForwardMissingHost", <<>>)
    /\ cmds.started = 2
    /\ cfgfile.writes = 1
    /\ Get(cfgfile.doc, <<"default_provider">>) = Some(StrVal("macos"))
    /\ ~forward_enabled(cfgfile.doc)

PreviousProviderOf(doc) == AsStr(Get(doc, <<"remote", "previous_provider">>))

\* C37: after a successful `remote forward on`, forward_enabled is true,
\* default_provider is "remote" and the remembered previous provider is not
\* "remote"; it is the default_provider the invocation read when that was
\* another provider, and is left as it was when forwarding was already on;
\* and a successful `remote forward off` that follows one or more successful
\* `on` puts default_provider back to what the first `on` read, when that
\* was a provider other than "remote".
C37_OnThenOffRestores ==
    \A n \in 1..Len(cmds.procs) :
        LET c == cmds.procs[n]
        IN  /\ ForwardDone(c, "on")
               => /\ forward_enabled(c.doc)
                  /\ DefaultProviderOf(c.doc) = Some("remote")
                  /\ PreviousProviderOf(c.doc) # Some("remote")
                  /\ IF DefaultProviderOf(c.read) \notin {None, Some("remote")}
                     THEN PreviousProviderOf(c.doc) = DefaultProviderOf(c.read)
                     ELSE PreviousProviderOf(c.doc) = PreviousProviderOf(c.read)
                  /\ cfgfile.doc = c.doc
            /\ (ForwardDone(c, "off") /\ IsSome(cmds.orig))
               => /\ DefaultProviderOf(c.doc) = cmds.orig
                  /\ cfgfile.doc = c.doc
                  /\ ~forward_enabled(c.doc)

C37_Witness ==
    /\ Len(cmds.procs) = 1
    /\ cmds.started = 3
    /\ cfgfile.writes = 3
    /\ ForwardDone(cmds.procs[1], "off")
    /\ DefaultProviderOf(cmds.procs[1].read) = Some("remote")
    /\ cmds.orig = Some("telegram")
    /\ DefaultProviderOf(cfgfile.doc) = Some("telegram")


\* what `remote forward status` prints for the file
StatusReports(doc, plat) ==
    ForwardResult(doc, [state |-> "status", host |-> None, port |-> None],
                  plat).out

\* a send without --provider that reads the file takes the remote provider
SendResolvesRemote(doc, plat) ==
    /\ load_config(doc).result = Ok
    /\ resolve_provider(None, load_config(doc).config, plat) = Some("remote")

\* C38: when no invocation is in progress, `remote forward status` prints
\* "on" exactly when a send without a provider override resolves to the
\* remote provider, and after a successful `remote forward off` such a send
\* does not resolve to "remote".
C38_StatusMatchesSend ==
    (\A k \in 1..Len(cmds.procs) : cmds.procs[k].pc = "done")
    => /\ StatusReports(cfgfile.doc, platform) = <<"on">>
            <=> SendResolvesRemote(cfgfile.doc, platform)
       /\ \A k \in 1..Len(cmds.procs) :
            ForwardDone(cmds.procs[k], "off")
            => ~SendResolvesRemote(cfgfile.doc, platform)

\* the listener has dispatched the request it holds
Dispatched == fg.kind = "listen" /\ IsSome(req) /\ IsSome(fg.d)

\* the title received, after the default-title substitution
BaseTitle ==
    LET t == Unwrap(req).body.envelope.notification.title
    IN  IF trim(t) = <<>> THEN Str_Notification ELSE t

\* the origin host the envelope names, if any
OriginHost ==
    LET cx == Unwrap(req).body.envelope.context
    IN  IF IsSome(cx) THEN Unwrap(cx).origin_host ELSE None

ProviderNotBuilt ==
    fg.result \in {Err("Provider", <<"Unsupported">>),
                   Err("Provider", <<"set_application">>)}

\* C40: a listener started with --no-click, whatever click command its
\* arguments or its configuration name, dispatches without a command and
\* without the background handoff: no payload file is written, no waiter is
\* spawned, no click command is run, and the delivery of an accepted request
\* makes one provider call, without waiting, once the provider is built.
C40_NoClickListener ==
    (fg.kind = "listen" /\ lsn.no_click)
    => /\ lsn.on_click = None
       /\ files = <<>>
       /\ waiters = <<>>
       /\ fg.path = None
       /\ fg.spawned = None
       /\ fg.clicked = <<>>
       /\ fg.child = "none"
       /\ fg.outcome = None
       /\ Len(fg.sent) <= 1
       /\ \A i \in 1..Len(fg.sent) : ~fg.sent[i].wait_for_click
       /\ IsSome(fg.d)
          => /\ Unwrap(fg.d).on_click = None
             /\ ~Unwrap(fg.d).background
             /\ ~Unwrap(fg.d).wait_for_click
             /\ (fg.pc # "deliver" /\ ~ProviderNotBuilt)
                => Len(fg.sent) = 1

C40_Witness ==
    /\ fg.kind = "listen"
    /\ lsn.no_click
    /\ lsn.cli_on_click = Some("arg-focus")
    /\ Len(fg.sent) = 1
    /\ fg.result = Ok
    /\ files = <<>>
    /\ Answered(200, "status ok")

============================================================================
